---- MODULE Spec2Model ----
(***************************************************************************)
(* Frame orchestration core of the r3d renderer (src/src/r3d_core.c):      *)
(* global feature flags, the four per-frame draw-call arrays, the light    *)
(* registry and visible-light batch, culling and sorting, the fixed pass   *)
(* order of R3D_End and the post-processing ping-pong buffer.              *)
(*                                                                         *)
(* Geometry is one-dimensional: a position is an integer, a bounding box   *)
(* an interval <<min, max>>, the frustum an interval in front of the       *)
(* camera, and the squared distance is (a - b)^2.                          *)
(***************************************************************************)
EXTENDS Integers, Sequences, FiniteSets, TLC

VARIABLES
    flags,              \* R3D.state.flags, as the set of flag bits that are set
    initFlags,          \* the flags argument R3D_Init was called with
    aDrawDeferred,      \* R3D.container.aDrawDeferred
    aDrawDeferredInst,  \* R3D.container.aDrawDeferredInst
    aDrawForward,       \* R3D.container.aDrawForward
    aDrawForwardInst,   \* R3D.container.aDrawForwardInst
    viewPos,            \* R3D.state.transform.viewPos
    frustum,            \* R3D.state.frustum.shape
    rLights,            \* R3D.container.rLights
    aLightBatch,        \* R3D.container.aLightBatch
    env,                \* R3D.env (the settings End() branches on)
    post,               \* R3D.framebuffer.post: source, target, attached texture
    pingPongSSAO,       \* R3D.framebuffer.pingPongSSAO: source, target, attached texture
    passLog,            \* the passes the R3D_End of the frame issued, in order
    shadowLog,          \* registry ids whose shadow map the last R3D_End rendered
    destroyed,          \* light handles R3D_DestroyLight has destroyed
    lastCall,           \* the public function that ran last, with its arguments
    userMaterial,       \* the R3D_Material object the caller owns and passes by pointer
    meshes,             \* the R3D_Mesh objects the caller owns, by address
    rasterLog,          \* the draws the frame's R3D_End rasterized: pass and material values
    lightLog,           \* the lights the frame's deferred lighting pass accumulated
    uLights,            \* the uLights[] uniforms of raster.forward and raster.forwardInst
    forwardLog,         \* per forward draw of the frame: the lights R3D_End sent to it
    ioLog,              \* per ping-pong pass of the frame's R3D_End: texture sampled and written
    resolution,         \* R3D.state.resolution: width and height
    customTarget,       \* R3D.framebuffer.customTarget: id and texture size
    mipChainBloom,      \* R3D.framebuffer.mipChainBloom: id, mipCount, mipChain
    blitLog,            \* the destination rectangle of the frame's final blit
    support,            \* R3D.support: the internal formats the GPU accepts
    texLog,             \* the last r3d_texture_get_best_internal_format call
    g_zones,            \* g_zones[0 .. g_zone_count - 1] of the profiler
    profHist,           \* per zone name, the values pushed since the last reset
    profOut             \* the last profiler call and what it returned

vars == <<flags, initFlags, aDrawDeferred, aDrawDeferredInst, aDrawForward,
          aDrawForwardInst, viewPos, frustum, rLights, aLightBatch, env, post,
          passLog, shadowLog, destroyed, lastCall, userMaterial, rasterLog,
          lightLog, uLights, forwardLog, support, texLog, g_zones, profHist,
          profOut, pingPongSSAO, ioLog, resolution, customTarget, mipChainBloom,
          blitLog, meshes>>

drawVars == <<aDrawDeferred, aDrawDeferredInst, aDrawForward, aDrawForwardInst>>

\* what only R3D_End writes
endVars == <<rasterLog, lightLog, uLights, forwardLog, ioLog, blitLog>>

\* what a frame leaves alone: written by R3D_Init, R3D_UpdateResolution and
\* R3D_SetRenderTarget only
setupVars == <<initFlags, resolution, customTarget, mipChainBloom>>

\* what no function of r3d_core.c writes
auxVars == <<userMaterial, meshes, support, texLog, g_zones, profHist, profOut>>

(***************************************************************************)
(* Bounds of the model.                                                    *)
(***************************************************************************)
MaxDraws == 3       \* draw calls queued in one frame, all four arrays together
MaxSubmits == 2     \* the same, where every submission function is exercised
MaxCoord == 3       \* world positions are 0..MaxCoord
MaxMeshes == 2      \* meshes of a model
MaxLights == 1      \* lights created where the shadow cadence is exercised
MaxBatchLights == 2 \* slots of the light registry
MaxGen == 2         \* generations of one registry slot

Coords == 0..MaxCoord

(***************************************************************************)
(* Feature flags (R3D_Flags). The header that numbers the bits is not part *)
(* of src/; a flag word is modelled as the set of its bits, so that        *)
(* a | b is union, a & ~b is difference and (a & F) is membership.         *)
(***************************************************************************)
Flags == {"R3D_FLAG_FXAA", "R3D_FLAG_BLIT_LINEAR", "R3D_FLAG_ASPECT_KEEP",
          "R3D_FLAG_STENCIL_TEST", "R3D_FLAG_DEPTH_PREPASS",
          "R3D_FLAG_8_BIT_NORMALS", "R3D_FLAG_FORCE_FORWARD",
          "R3D_FLAG_NO_FRUSTUM_CULLING", "R3D_FLAG_TRANSPARENT_SORTING",
          "R3D_FLAG_OPAQUE_SORTING", "R3D_FLAG_LOW_PRECISION_BUFFERS"}

InitOnlyFlags == {"R3D_FLAG_8_BIT_NORMALS", "R3D_FLAG_LOW_PRECISION_BUFFERS"}

\* R3D_SetState without the init-only checks
SetStateFlagsUnchecked(state, f) == state \cup f

\* R3D_SetState: the flag word that is OR-ed into R3D.state.flags.
SetStateFlags(state, f) ==
    LET f1 == IF "R3D_FLAG_8_BIT_NORMALS" \in f
              THEN f \ {"R3D_FLAG_8_BIT_NORMALS"} ELSE f
        f2 == IF "R3D_FLAG_LOW_PRECISION_BUFFERS" \in f1
              THEN f1 \ {"R3D_FLAG_LOW_PRECISION_BUFFERS"} ELSE f1
    IN  state \cup f2

\* R3D_ClearState: the flag word that is masked out of R3D.state.flags.
ClearStateFlags(state, f) ==
    LET f1 == IF "R3D_FLAG_8_BIT_NORMALS" \in f
              THEN f \ {"R3D_FLAG_8_BIT_NORMALS"} ELSE f
        f2 == IF "R3D_FLAG_LOW_PRECISION_BUFFERS" \in f1
              THEN f1 \ {"R3D_FLAG_LOW_PRECISION_BUFFERS"} ELSE f1
    IN  state \ f2

\* R3D_HasState
R3D_HasState(flag) == flag \in flags

(***************************************************************************)
(* Geometry (1-D). The frustum, collision and visibility helpers live in   *)
(* details/ files that are not part of src/.                               *)
(***************************************************************************)
FLT_MAX == 1000

NearPlane == 0
FarPlane == 2

Vector3DistanceSqr(a, b) == (a - b) * (a - b)

CheckCollisionBoxes(a, b) == a[1] <= b[2] /\ a[2] >= b[1]

\* Camera3D: a position and the direction (+1 or -1) it looks in.
Cameras == [position : Coords, dir : {-1, 1}]

r3d_frustum_create(camera) ==
    IF camera.dir = 1
    THEN <<camera.position + NearPlane, camera.position + FarPlane>>
    ELSE <<camera.position - FarPlane, camera.position - NearPlane>>

r3d_frustum_is_aabb_in(shape, aabb) == CheckCollisionBoxes(shape, aabb)

(***************************************************************************)
(* Materials, meshes, sprites and draw calls.                              *)
(***************************************************************************)
BlendModes == {"R3D_BLEND_OPAQUE", "R3D_BLEND_ALPHA"}

ShadowCastModes == {"R3D_SHADOW_CAST_DISABLED", "R3D_SHADOW_CAST_FRONT_FACES"}

CullModes == {"R3D_CULL_NONE", "R3D_CULL_BACK"}

\* albedo colours and the ids of the textures bound to the albedo map
Colors == {"WHITE", "RED"}

TextureIds == {"white", "user"}

\* R3D_GetDefaultMaterial(): the fields the submission and the passes read
R3D_GetDefaultMaterial ==
    [blendMode |-> "R3D_BLEND_OPAQUE", cullMode |-> "R3D_CULL_BACK",
     shadowCastMode |-> "R3D_SHADOW_CAST_FRONT_FACES",
     albedo |-> [color |-> "WHITE", texture |-> "white"]]

\* the default material under either blend mode
Materials == {[R3D_GetDefaultMaterial EXCEPT !.blendMode = b] : b \in BlendModes}

\* the addresses of the R3D_Mesh objects of the caller
Meshes == {"pointMesh", "boxMesh"}

\* the address of the mesh whose box is a point when it is loaded
NullMesh == "pointMesh"

\* R3D_Mesh, of which the frame reads the object-space bounding box: the
\* caller's meshes as they are loaded
LoadedMeshes ==
    [m \in Meshes |-> [aabb |-> IF m = NullMesh THEN <<0, 0>> ELSE <<-1, 1>>]]

\* a null pointer; a pointer to x is <<x>>
NULL == <<>>

\* BoundingBox default of an instanced draw submitted without one
InfiniteAabb == <<-FLT_MAX, FLT_MAX>>

\* const BoundingBox* globalAabb == NULL
NullAabb == <<>>

\* r3d_drawcall_t drawCall = { 0 }; geometry.model.mesh is a pointer
ZeroDrawCall ==
    [transform |-> 0, material |-> R3D_GetDefaultMaterial,
     geometryType |-> "R3D_DRAWCALL_GEOMETRY_MODEL",
     renderMode |-> "R3D_DRAWCALL_RENDER_DEFERRED",
     mesh |-> NULL, quad |-> <<0, 0>>,
     instanced |-> [count |-> 0, allAabb |-> <<0, 0>>]]

\* a routing test that looks at the blend mode only
IsForwardByBlendMode(material, state) == material.blendMode # "R3D_BLEND_OPAQUE"

\* The routing test of every submission function
IsForward(material, state) ==
    material.blendMode # "R3D_BLEND_OPAQUE" \/ "R3D_FLAG_FORCE_FORWARD" \in state

RenderModeOf(material, state) ==
    IF IsForward(material, state) THEN "R3D_DRAWCALL_RENDER_FORWARD"
    ELSE "R3D_DRAWCALL_RENDER_DEFERRED"

\* The draw call R3D_DrawMesh builds (also one iteration of R3D_DrawModelPro)
MeshDrawCall(mesh, material, transform, state) ==
    [ZeroDrawCall EXCEPT !.transform = transform, !.material = material,
                         !.mesh = mesh,
                         !.geometryType = "R3D_DRAWCALL_GEOMETRY_MODEL",
                         !.renderMode = RenderModeOf(material, state)]

\* The draw call R3D_DrawMeshInstancedPro builds; globalAabb is NullAabb or a box
MeshInstDrawCall(mesh, material, globalAabb, transform, count, state) ==
    [ZeroDrawCall EXCEPT !.transform = transform, !.material = material,
                         !.mesh = mesh,
                         !.geometryType = "R3D_DRAWCALL_GEOMETRY_MODEL",
                         !.renderMode = RenderModeOf(material, state),
                         !.instanced = [count |-> count,
                                        allAabb |-> IF globalAabb = NullAabb
                                                    THEN InfiniteAabb
                                                    ELSE globalAabb]]

\* fabsf
Abs(x) == IF x < 0 THEN 0 - x ELSE x

\* a coordinate in quarters of a unit, the unit of the corners of a quad
Quarters(x) == 4 * x

\* The draw call R3D_DrawSpritePro builds. The corners of the quad are
\* centre -+ axisX with axisX = |size.x| * 0.5 * 0.5: they are kept in
\* quarters of a unit, <<4 * position - |size|, 4 * position + |size|>>
SpriteDrawCall(material, position, size, state) ==
    [ZeroDrawCall EXCEPT !.transform = position, !.material = material,
                         !.quad = <<Quarters(position) - Abs(size),
                                    Quarters(position) + Abs(size)>>,
                         !.geometryType = "R3D_DRAWCALL_GEOMETRY_SPRITE",
                         !.renderMode = RenderModeOf(material, state)]

\* The draw call R3D_DrawSpriteInstancedPro builds
SpriteInstDrawCall(material, globalAabb, transform, count, state) ==
    [ZeroDrawCall EXCEPT !.transform = transform, !.material = material,
                         !.geometryType = "R3D_DRAWCALL_GEOMETRY_SPRITE",
                         !.renderMode = RenderModeOf(material, state),
                         !.instanced = [count |-> count,
                                        allAabb |-> IF globalAabb = NullAabb
                                                    THEN InfiniteAabb
                                                    ELSE globalAabb]]

\* r3d_array_t operations (details/containers/r3d_array.h, not part of src/)
r3d_array_clear == <<>>

r3d_array_destroy == <<>>

r3d_array_push_back(arr, elem) == Append(arr, elem)

TotalDraws == Len(aDrawDeferred) + Len(aDrawDeferredInst)
              + Len(aDrawForward) + Len(aDrawForwardInst)

\* call->geometry.model.mesh->aabb: the box of the mesh the draw call points
\* to, as the mesh is when the box is read
MeshAabb(call) == meshes[call.mesh[1]].aabb

\* Visibility tests of the culling step (details/r3d_drawcall.c, not in src/)
r3d_drawcall_geometry_is_visible(call, shape) ==
    IF call.geometryType = "R3D_DRAWCALL_GEOMETRY_MODEL"
    THEN r3d_frustum_is_aabb_in(shape, <<call.transform + MeshAabb(call)[1],
                                         call.transform + MeshAabb(call)[2]>>)
    ELSE r3d_frustum_is_aabb_in(<<Quarters(shape[1]), Quarters(shape[2])>>, call.quad)

r3d_drawcall_instanced_geometry_is_visible(call, shape) ==
    r3d_frustum_is_aabb_in(shape, call.instanced.allAabb)

(***************************************************************************)
(* Culling and sorting (r3d_prepare_cull_drawcalls,                        *)
(* r3d_prepare_sort_drawcalls, the qsort comparators).                     *)
(***************************************************************************)
IsVisible(call, shape, inst) ==
    IF inst THEN r3d_drawcall_instanced_geometry_is_visible(call, shape)
    ELSE r3d_drawcall_geometry_is_visible(call, shape)

\* a culling loop that drops the last entry in place of the invisible one
RECURSIVE CullLoopDropLast(_, _, _, _, _)
CullLoopDropLast(calls, count, i, shape, inst) ==
    IF i < 1 THEN SubSeq(calls, 1, count)
    ELSE IF ~IsVisible(calls[i], shape, inst)
         THEN CullLoopDropLast(calls, count - 1, i - 1, shape, inst)
         ELSE CullLoopDropLast(calls, count, i - 1, shape, inst)

\* for (i = count - 1; i >= 0; i--) if (!visible(calls[i])) calls[i] = calls[--count];
RECURSIVE CullLoop(_, _, _, _, _)
CullLoop(calls, count, i, shape, inst) ==
    IF i < 1 THEN SubSeq(calls, 1, count)
    ELSE IF ~IsVisible(calls[i], shape, inst)
         THEN CullLoop([calls EXCEPT ![i] = calls[count]], count - 1, i - 1, shape, inst)
         ELSE CullLoop(calls, count, i - 1, shape, inst)

CullArray(calls, shape, inst) == CullLoop(calls, Len(calls), Len(calls), shape, inst)

\* The four arrays <<deferred, deferredInst, forward, forwardInst>> after culling
r3d_prepare_cull_drawcalls(arrays, shape) ==
    <<CullArray(arrays[1], shape, FALSE), CullArray(arrays[2], shape, TRUE),
      CullArray(arrays[3], shape, FALSE), CullArray(arrays[4], shape, TRUE)>>

\* the front-to-back comparator with the two tests exchanged
CompareFrontToBackExchanged(a, b, position) ==
    LET distA == Vector3DistanceSqr(position, a.transform)
        distB == Vector3DistanceSqr(position, b.transform)
    IN  (IF distA < distB THEN 1 ELSE 0) - (IF distA > distB THEN 1 ELSE 0)

r3d_drawcall_compare_front_to_back(a, b, position) ==
    LET distA == Vector3DistanceSqr(position, a.transform)
        distB == Vector3DistanceSqr(position, b.transform)
    IN  (IF distA > distB THEN 1 ELSE 0) - (IF distA < distB THEN 1 ELSE 0)

r3d_drawcall_compare_back_to_front(a, b, position) ==
    LET distA == Vector3DistanceSqr(position, a.transform)
        distB == Vector3DistanceSqr(position, b.transform)
    IN  (IF distA < distB THEN 1 ELSE 0) - (IF distA > distB THEN 1 ELSE 0)

Bijections(n) == {p \in [1..n -> 1..n] : \A i, j \in 1..n : p[i] = p[j] => i = j}

\* qsort: some rearrangement of calls that is ordered under the comparator
\* (qsort is not stable, so every such rearrangement is a possible result)
r3d_drawcall_sort_front_to_back(calls, position) ==
    {[i \in 1..Len(calls) |-> calls[p[i]]] : p \in
        {q \in Bijections(Len(calls)) : \A i, j \in 1..Len(calls) :
            i < j => r3d_drawcall_compare_front_to_back(calls[q[i]], calls[q[j]], position) <= 0}}

r3d_drawcall_sort_back_to_front(calls, position) ==
    {[i \in 1..Len(calls) |-> calls[p[i]]] : p \in
        {q \in Bijections(Len(calls)) : \A i, j \in 1..Len(calls) :
            i < j => r3d_drawcall_compare_back_to_front(calls[q[i]], calls[q[j]], position) <= 0}}

\* The possible contents of the deferred / forward array after the sort step
SortDeferred(calls, position, state) ==
    IF "R3D_FLAG_OPAQUE_SORTING" \in state
    THEN r3d_drawcall_sort_front_to_back(calls, position) ELSE {calls}

SortForward(calls, position, state) ==
    IF "R3D_FLAG_TRANSPARENT_SORTING" \in state
    THEN r3d_drawcall_sort_back_to_front(calls, position) ELSE {calls}

\* the test of the plain deferred array alone
HasPlainDeferredCalls(arrays) == Len(arrays[1]) > 0

r3d_has_deferred_calls(arrays) == Len(arrays[1]) > 0 \/ Len(arrays[2]) > 0

r3d_has_forward_calls(arrays) == Len(arrays[3]) > 0 \/ Len(arrays[4]) > 0

(***************************************************************************)
(* Light registry and lights. details/containers/r3d_registry.h,           *)
(* details/r3d_light.c and the public light functions are not part of      *)
(* src/: slots carry a generation counter, a handle is (index, generation),*)
(* destruction marks the slot free and increments its generation, and a    *)
(* freed slot is reused by the next creation.                              *)
(***************************************************************************)
LightRange == 1

LightTypes == {"R3D_LIGHT_DIR", "R3D_LIGHT_SPOT", "R3D_LIGHT_OMNI"}

UpdateModes == {"R3D_SHADOW_UPDATE_MANUAL", "R3D_SHADOW_UPDATE_CONTINUOUS"}

Handles == [index : 1..MaxBatchLights, generation : 0..MaxGen]

NoHandle == [index |-> 0, generation |-> 0]

\* r3d_light_t after creation
NewLight(type) ==
    [type |-> type, enabled |-> FALSE, position |-> 0,
     shadow |-> [enabled |-> FALSE, mode |-> "R3D_SHADOW_UPDATE_CONTINUOUS",
                 shoudlUpdate |-> TRUE]]

r3d_registry_create == [slots |-> <<>>, free |-> <<>>]

r3d_registry_destroy == [slots |-> <<>>, free |-> <<>>]

r3d_registry_get_allocated_count(reg) == Len(reg.slots)

\* validity of a registry id (slot number), as R3D_End's loop asks for it
r3d_registry_is_valid(reg, id) ==
    id >= 1 /\ id <= Len(reg.slots) /\ reg.slots[id].valid

r3d_registry_get(reg, id) == reg.slots[id].light

\* validity of a handle held by the caller
LightHandleValid(reg, h) ==
    r3d_registry_is_valid(reg, h.index) /\ reg.slots[h.index].generation = h.generation

\* the slot the next creation takes: the last freed one, else a new one
r3d_registry_next_id(reg) ==
    IF Len(reg.free) > 0 THEN reg.free[Len(reg.free)] ELSE Len(reg.slots) + 1

r3d_registry_add(reg, light) ==
    IF Len(reg.free) > 0
    THEN [slots |-> [reg.slots EXCEPT ![reg.free[Len(reg.free)]] =
                        [@ EXCEPT !.valid = TRUE, !.light = light]],
          free |-> SubSeq(reg.free, 1, Len(reg.free) - 1)]
    ELSE [slots |-> Append(reg.slots, [valid |-> TRUE, generation |-> 0, light |-> light]),
          free |-> reg.free]

r3d_registry_remove(reg, id) ==
    [slots |-> [reg.slots EXCEPT ![id] =
                    [@ EXCEPT !.valid = FALSE, !.generation = @ + 1]],
     free |-> Append(reg.free, id)]

\* r3d_light_get_bounding_box: the box around the light's range
r3d_light_get_bounding_box(light) ==
    <<light.position - LightRange, light.position + LightRange>>

\* r3d_light_process_shadow_update: Continuous asks for a render every frame,
\* Manual leaves the flag to the caller
r3d_light_process_shadow_update(light) ==
    IF light.shadow.mode = "R3D_SHADOW_UPDATE_CONTINUOUS"
    THEN [light EXCEPT !.shadow.shoudlUpdate = TRUE]
    ELSE light

\* r3d_light_indicate_shadow_update: the map was rendered; Manual clears the flag
r3d_light_indicate_shadow_update(light) ==
    IF light.shadow.mode = "R3D_SHADOW_UPDATE_MANUAL"
    THEN [light EXCEPT !.shadow.shoudlUpdate = FALSE]
    ELSE light

\* the loop over the registry ids without the validity test
RECURSIVE BatchLoopAnyId(_, _, _, _)
BatchLoopAnyId(reg, shape, id, batch) ==
    IF id > r3d_registry_get_allocated_count(reg)
    THEN [reg |-> reg, batch |-> batch]
    ELSE IF ~r3d_registry_get(reg, id).enabled
    THEN BatchLoopAnyId(reg, shape, id + 1, batch)
    ELSE LET light == IF r3d_registry_get(reg, id).shadow.enabled
                      THEN r3d_light_process_shadow_update(r3d_registry_get(reg, id))
                      ELSE r3d_registry_get(reg, id)
             reg2 == [reg EXCEPT !.slots[id].light = light]
             aabb == r3d_light_get_bounding_box(light)
         IN  IF light.type # "R3D_LIGHT_DIR" /\ ~r3d_frustum_is_aabb_in(shape, aabb)
             THEN BatchLoopAnyId(reg2, shape, id + 1, batch)
             ELSE BatchLoopAnyId(reg2, shape, id + 1,
                                 r3d_array_push_back(batch, [data |-> id, aabb |-> aabb]))

\* the loop over the registry ids without the shadow update step
RECURSIVE BatchLoopNoShadowUpdate(_, _, _, _)
BatchLoopNoShadowUpdate(reg, shape, id, batch) ==
    IF id > r3d_registry_get_allocated_count(reg)
    THEN [reg |-> reg, batch |-> batch]
    ELSE IF ~r3d_registry_is_valid(reg, id)
    THEN BatchLoopNoShadowUpdate(reg, shape, id + 1, batch)
    ELSE IF ~r3d_registry_get(reg, id).enabled
    THEN BatchLoopNoShadowUpdate(reg, shape, id + 1, batch)
    ELSE LET light == r3d_registry_get(reg, id)
             aabb == r3d_light_get_bounding_box(light)
         IN  IF light.type # "R3D_LIGHT_DIR" /\ ~r3d_frustum_is_aabb_in(shape, aabb)
             THEN BatchLoopNoShadowUpdate(reg, shape, id + 1, batch)
             ELSE BatchLoopNoShadowUpdate(reg, shape, id + 1,
                                 r3d_array_push_back(batch, [data |-> id, aabb |-> aabb]))

\* one iteration of the loop of r3d_prepare_process_lights_and_batch: the
\* light of registry id is skipped when it is not valid, not enabled or,
\* unless directional, outside the view volume
BatchIteration(acc, shape, id) ==
    IF ~r3d_registry_is_valid(acc.reg, id) THEN acc
    ELSE IF ~r3d_registry_get(acc.reg, id).enabled THEN acc
    ELSE LET light == IF r3d_registry_get(acc.reg, id).shadow.enabled
                      THEN r3d_light_process_shadow_update(r3d_registry_get(acc.reg, id))
                      ELSE r3d_registry_get(acc.reg, id)
             reg2 == [acc.reg EXCEPT !.slots[id].light = light]
             aabb == r3d_light_get_bounding_box(light)
         IN  IF light.type # "R3D_LIGHT_DIR" /\ ~r3d_frustum_is_aabb_in(shape, aabb)
             THEN [reg |-> reg2, batch |-> acc.batch]
             ELSE [reg |-> reg2,
                   batch |-> r3d_array_push_back(acc.batch, [data |-> id, aabb |-> aabb])]

\* the iterations for the ids lo..hi, in ascending order, while the id is
\* not above the allocated count
RECURSIVE BatchFromTo(_, _, _, _)
BatchFromTo(acc, shape, lo, hi) ==
    IF lo > hi \/ lo > r3d_registry_get_allocated_count(acc.reg) THEN acc
    ELSE IF lo = hi THEN BatchIteration(acc, shape, lo)
    ELSE BatchFromTo(BatchFromTo(acc, shape, lo, (lo + hi) \div 2), shape,
                     (lo + hi) \div 2 + 1, hi)

\* the loop over the registry ids from id to the allocated count
BatchLoop(reg, shape, id, batch) ==
    BatchFromTo([reg |-> reg, batch |-> batch], shape, id,
                r3d_registry_get_allocated_count(reg))

\* the batching step without r3d_array_clear: the previous frame's batch stays
ProcessLightsKeepBatch(reg, shape) == BatchLoop(reg, shape, 1, aLightBatch)

r3d_prepare_process_lights_and_batch(reg, shape) ==
    BatchLoop(reg, shape, 1, r3d_array_clear)

\* the loop over the batch without the should-update test
RECURSIVE ShadowLoopEveryFrame(_, _, _, _)
ShadowLoopEveryFrame(reg, batch, i, rendered) ==
    IF i > Len(batch) THEN [reg |-> reg, rendered |-> rendered]
    ELSE LET id == batch[i].data
             light == r3d_registry_get(reg, id)
         IN  IF ~light.shadow.enabled THEN ShadowLoopEveryFrame(reg, batch, i + 1, rendered)
             ELSE ShadowLoopEveryFrame([reg EXCEPT !.slots[id].light =
                                            r3d_light_indicate_shadow_update(light)],
                                       batch, i + 1, Append(rendered, id))

\* one iteration of the loop of r3d_pass_shadow_maps, for acc.batch[i]
ShadowIteration(acc, i) ==
    LET id == acc.batch[i].data
        light == r3d_registry_get(acc.reg, id)
    IN  IF ~light.shadow.enabled THEN acc
        ELSE IF ~light.shadow.shoudlUpdate THEN acc
        ELSE [acc EXCEPT !.reg.slots[id].light = r3d_light_indicate_shadow_update(light),
                         !.rendered = Append(@, id)]

\* the iterations for batch[lo..hi], in ascending order, while the index is
\* inside the batch
RECURSIVE ShadowFromTo(_, _, _)
ShadowFromTo(acc, lo, hi) ==
    IF lo > hi \/ lo > Len(acc.batch) THEN acc
    ELSE IF lo = hi THEN ShadowIteration(acc, lo)
    ELSE ShadowFromTo(ShadowFromTo(acc, lo, (lo + hi) \div 2), (lo + hi) \div 2 + 1, hi)

\* r3d_pass_shadow_maps: the loop over the batch from batch[i]; rendered
\* lists the registry ids whose shadow map is rendered
ShadowLoop(reg, batch, i, rendered) ==
    LET out == ShadowFromTo([reg |-> reg, batch |-> batch, rendered |-> rendered],
                            i, Len(batch))
    IN  [reg |-> out.reg, rendered |-> out.rendered]

r3d_pass_shadow_maps(reg, batch) == ShadowLoop(reg, batch, 1, <<>>)

(***************************************************************************)
(* Environment parameters read by R3D_End.                                 *)
(***************************************************************************)
BloomModes == {"R3D_BLOOM_DISABLED", "R3D_BLOOM_ADDITIVE"}

FogModes == {"R3D_FOG_DISABLED", "R3D_FOG_LINEAR"}

TonemapModes == {"R3D_TONEMAP_LINEAR", "R3D_TONEMAP_REINHARD"}

\* exposures, in units of 1.0f
Exposures == {1, 2}

\* the size of the window, GetScreenWidth() and GetScreenHeight()
GetScreenWidth == 64
GetScreenHeight == 48

\* R3D.framebuffer.customTarget after memset 0: no custom target
NoTarget == [id |-> 0, texture |-> [width |-> 0, height |-> 0]]

\* R3D.framebuffer.mipChainBloom before it is loaded and after it is unloaded
NoMipChain == [id |-> 0, mipCount |-> 0, mipChain |-> NULL, attached |-> "none"]

\* no final blit was issued
NoBlit == <<>>

\* the environment R3D_Init sets up
DefaultEnv ==
    [ssaoEnabled |-> FALSE, bloomMode |-> "R3D_BLOOM_DISABLED",
     fogMode |-> "R3D_FOG_DISABLED", tonemapMode |-> "R3D_TONEMAP_LINEAR",
     tonemapExposure |-> 1, ssaoIterations |-> 10]

(***************************************************************************)
(* The post ping-pong framebuffer: two textures, and the one attached to   *)
(* the framebuffer's colour attachment.                                    *)
(***************************************************************************)
PostTextures == <<"textures[0]", "textures[1]">>

\* the texture name 0: no texture
NoTexture == "0"

\* a ping-pong framebuffer after memset 0: before it is loaded and after it
\* is unloaded
NoPingPong == [id |-> 0, target |-> NoTexture, source |-> NoTexture, attached |-> NoTexture]

r3d_framebuffer_load_pingpong ==
    [id |-> 1, target |-> PostTextures[1], source |-> PostTextures[2],
     attached |-> PostTextures[1]]

\* the two textures of the SSAO ping-pong framebuffer
SsaoTextures == <<"ssao textures[0]", "ssao textures[1]">>

r3d_framebuffer_load_pingpong_ssao ==
    [id |-> 1, target |-> SsaoTextures[1], source |-> SsaoTextures[2],
     attached |-> SsaoTextures[1]]

\* the swap without the temporary
SwapWithoutTemporary(fb) ==
    [fb EXCEPT !.target = fb.source, !.source = fb.source, !.attached = fb.source]

r3d_framebuffer_swap_pingpong(fb) ==
    [fb EXCEPT !.target = fb.source, !.source = fb.target, !.attached = fb.source]

(***************************************************************************)
(* Rasterization of draw calls (details/r3d_drawcall.c). A rasterization   *)
(* is logged as the pass it belongs to and the material values it reads    *)
(* from the draw call. r3d_drawcall.c names the mesh geometry type         *)
(* R3D_DRAWCALL_GEOMETRY_MESH where r3d_core.c has                         *)
(* R3D_DRAWCALL_GEOMETRY_MODEL, and reads the material of a call through   *)
(* call->material where r3d_core.c stores and reads the value              *)
(* call->material; both are taken to be the same field.                    *)
(***************************************************************************)
RECURSIVE Concat(_)
Concat(ss) == IF ss = <<>> THEN <<>> ELSE Head(ss) \o Concat(Tail(ss))

\* the rasterizations of calls[1], calls[2], ... in this order
RasterEach(calls, Raster(_)) == Concat([i \in 1..Len(calls) |-> Raster(calls[i])])

Reverse(seq) == [i \in 1..Len(seq) |-> seq[Len(seq) + 1 - i]]

\* the material a rasterization function uses for a draw call: the material
\* of the entry. r3d_drawcall.c reaches its fields as call->material->x, while
\* r3d_core.c stores the entry's material by value and reads it as
\* call->material.x; both give the values that were submitted as long as the
\* submitted material is not written before R3D_End, and no frame that is
\* rendered here follows such a write
RasterMaterial(call) == call.material

Rasterized(call, pass) == <<[pass |-> pass, material |-> RasterMaterial(call)]>>

\* the face culling r3d_drawcall_apply_cull_mode sets
r3d_drawcall_apply_cull_mode(mode) ==
    CASE mode = "R3D_CULL_NONE" -> "glDisable(GL_CULL_FACE)"
      [] mode = "R3D_CULL_BACK" -> "glCullFace(GL_BACK)"
      [] mode = "R3D_CULL_FRONT" -> "glCullFace(GL_FRONT)"

\* the face culling r3d_drawcall_apply_shadow_cast_mode sets; Disabled and
\* any other value reach assert(false)
r3d_drawcall_apply_shadow_cast_mode(mode) ==
    CASE mode = "R3D_SHADOW_CAST_ALL_FACES" -> "glDisable(GL_CULL_FACE)"
      [] mode = "R3D_SHADOW_CAST_FRONT_FACES" -> "glCullFace(GL_BACK)"
      [] mode = "R3D_SHADOW_CAST_BACK_FACES" -> "glCullFace(GL_FRONT)"
      [] OTHER -> "assert"

\* a depth rasterization also records the face culling it applied
DepthRasterized(call, pass, shadow) ==
    <<[pass |-> pass, material |-> RasterMaterial(call),
       faces |-> IF shadow
                 THEN r3d_drawcall_apply_shadow_cast_mode(RasterMaterial(call).shadowCastMode)
                 ELSE r3d_drawcall_apply_cull_mode(RasterMaterial(call).cullMode)]>>

\* r3d_drawcall_raster_depth and r3d_drawcall_raster_depth_cube
r3d_drawcall_raster_depth(call, pass, shadow) ==
    IF call.geometryType # "R3D_DRAWCALL_GEOMETRY_MODEL" THEN <<>>
    ELSE DepthRasterized(call, pass, shadow)

\* r3d_drawcall_raster_depth_inst and r3d_drawcall_raster_depth_cube_inst
r3d_drawcall_raster_depth_inst(call, pass, shadow) ==
    IF call.geometryType # "R3D_DRAWCALL_GEOMETRY_MODEL" THEN <<>>
    ELSE DepthRasterized(call, pass, shadow)

r3d_drawcall_raster_geometry(call, pass) == Rasterized(call, pass)

r3d_drawcall_raster_geometry_inst(call, pass) ==
    IF call.instanced.count = 0 THEN <<>> ELSE Rasterized(call, pass)

r3d_drawcall_raster_forward(call, pass) == Rasterized(call, pass)

r3d_drawcall_raster_forward_inst(call, pass) ==
    IF call.instanced.count = 0 THEN <<>> ELSE Rasterized(call, pass)

\* the shadow pass without the filter on the shadow-cast mode
ShadowMapRasterUnfiltered(arrays) ==
    LET Inst(call) == r3d_drawcall_raster_depth_inst(call, "r3d_pass_shadow_maps", TRUE)
        Plain(call) == r3d_drawcall_raster_depth(call, "r3d_pass_shadow_maps", TRUE)
    IN  RasterEach(arrays[2], Inst) \o RasterEach(arrays[4], Inst)
        \o RasterEach(arrays[1], Plain) \o RasterEach(arrays[3], Plain)

\* the draws one shadow map (one cube face of an omni light) is rendered
\* from: the four arrays as submitted, shadow casting not disabled
ShadowMapRaster(arrays) ==
    LET Inst(call) == IF call.material.shadowCastMode # "R3D_SHADOW_CAST_DISABLED"
                      THEN r3d_drawcall_raster_depth_inst(call, "r3d_pass_shadow_maps", TRUE)
                      ELSE <<>>
        Plain(call) == IF call.material.shadowCastMode # "R3D_SHADOW_CAST_DISABLED"
                       THEN r3d_drawcall_raster_depth(call, "r3d_pass_shadow_maps", TRUE)
                       ELSE <<>>
    IN  RasterEach(arrays[2], Inst) \o RasterEach(arrays[4], Inst)
        \o RasterEach(arrays[1], Plain) \o RasterEach(arrays[3], Plain)

\* the number of maps r3d_pass_shadow_maps renders for a light
ShadowFaces(light) == IF light.type = "R3D_LIGHT_OMNI" THEN 6 ELSE 1

\* the rasterizations of r3d_pass_shadow_maps; rendered lists the registry
\* ids whose shadow map is rendered
ShadowRaster(reg, rendered, arrays) ==
    Concat([r \in 1..Len(rendered) |->
                Concat([face \in 1..ShadowFaces(r3d_registry_get(reg, rendered[r])) |->
                            ShadowMapRaster(arrays)])])

GBufferRaster(arrays) ==
    LET Inst(call) == r3d_drawcall_raster_geometry_inst(call, "r3d_pass_gbuffer")
        Plain(call) == r3d_drawcall_raster_geometry(call, "r3d_pass_gbuffer")
    IN  RasterEach(arrays[2], Inst) \o RasterEach(arrays[1], Plain)

\* the depth pre-pass with the plain forward array drawn in array order
DepthPrepassRasterArrayOrder(arrays) ==
    LET Inst(call) ==
            r3d_drawcall_raster_depth_inst(call, "r3d_pass_scene_forward_depth_prepass", FALSE)
        Plain(call) ==
            r3d_drawcall_raster_depth(call, "r3d_pass_scene_forward_depth_prepass", FALSE)
    IN  RasterEach(arrays[4], Inst) \o RasterEach(arrays[3], Plain)

\* the depth pre-pass draws the plain forward array in reverse order
DepthPrepassRaster(arrays) ==
    LET Inst(call) ==
            r3d_drawcall_raster_depth_inst(call, "r3d_pass_scene_forward_depth_prepass", FALSE)
        Plain(call) ==
            r3d_drawcall_raster_depth(call, "r3d_pass_scene_forward_depth_prepass", FALSE)
    IN  RasterEach(arrays[4], Inst) \o RasterEach(Reverse(arrays[3]), Plain)

ForwardRaster(arrays) ==
    LET Inst(call) == r3d_drawcall_raster_forward_inst(call, "r3d_pass_scene_forward")
        Plain(call) == r3d_drawcall_raster_forward(call, "r3d_pass_scene_forward")
    IN  RasterEach(arrays[4], Inst) \o RasterEach(arrays[3], Plain)

(***************************************************************************)
(* The stencil buffer. A pixel is a position inside the view volume; a box *)
(* rasterizes to the pixels it covers. The stencil value of a pixel is a   *)
(* byte: bit 7 marks geometry, bits 0..6 hold an effect ID. The draw-time  *)
(* semantics are those of glStencilFunc, glStencilOp and glStencilMask.    *)
(***************************************************************************)
R3D_STENCIL_GEOMETRY_BIT == 128

R3D_STENCIL_GEOMETRY_MASK == 128

R3D_STENCIL_EFFECT_MASK == 127

\* the positions a view volume can hold
PixelRange == (0 - FarPlane)..(MaxCoord + FarPlane)

Pixels(shape) == {x \in PixelRange : shape[1] <= x /\ x <= shape[2]}

\* the pixels a box rasterizes to, with depth test and face culling disabled
Covered(box, shape) == {x \in Pixels(shape) : box[1] <= x /\ x <= box[2]}

\* the pixels a quad rasterizes to; its corners are in quarters of a unit
CoveredByQuad(quad, shape) ==
    {x \in Pixels(shape) : quad[1] <= Quarters(x) /\ Quarters(x) <= quad[2]}

\* a & b on bytes
RECURSIVE BitAnd(_, _)
BitAnd(a, b) ==
    IF a = 0 \/ b = 0 THEN 0
    ELSE (a % 2) * (b % 2) + 2 * BitAnd(a \div 2, b \div 2)

\* glClearStencil(0x00) with glStencilMask(0xFF)
ClearStencil(shape) == [x \in Pixels(shape) |-> 0]

r3d_stencil_enable_geometry_write ==
    [enabled |-> TRUE, writeMask |-> R3D_STENCIL_GEOMETRY_MASK, func |-> "GL_ALWAYS",
     ref |-> R3D_STENCIL_GEOMETRY_BIT, funcMask |-> R3D_STENCIL_GEOMETRY_MASK,
     dppass |-> "GL_REPLACE"]

r3d_stencil_enable_effect_write(effectID) ==
    [enabled |-> TRUE, writeMask |-> R3D_STENCIL_EFFECT_MASK, func |-> "GL_ALWAYS",
     ref |-> BitAnd(effectID, R3D_STENCIL_EFFECT_MASK), funcMask |-> R3D_STENCIL_EFFECT_MASK,
     dppass |-> "GL_REPLACE"]

r3d_stencil_enable_effect_test(condition, effectID) ==
    [enabled |-> TRUE, writeMask |-> 0, func |-> condition,
     ref |-> BitAnd(effectID, R3D_STENCIL_EFFECT_MASK), funcMask |-> R3D_STENCIL_EFFECT_MASK,
     dppass |-> "GL_KEEP"]

\* the reference value is the geometry bit: effectID is not used
r3d_stencil_enable_effect_write_with_geometry_test(condition, effectID) ==
    [enabled |-> TRUE, writeMask |-> R3D_STENCIL_EFFECT_MASK, func |-> condition,
     ref |-> R3D_STENCIL_GEOMETRY_BIT, funcMask |-> R3D_STENCIL_GEOMETRY_MASK,
     dppass |-> "GL_REPLACE"]

\* glDisable(GL_STENCIL_TEST): every fragment passes, nothing is written
r3d_stencil_disable ==
    [enabled |-> FALSE, writeMask |-> 0, func |-> "GL_ALWAYS", ref |-> 0, funcMask |-> 0,
     dppass |-> "GL_KEEP"]

\* the stencil test of a fragment on a pixel of stencil value v
StencilPasses(st, v) ==
    \/ ~st.enabled
    \/ st.func = "GL_ALWAYS"
    \/ st.func = "GL_EQUAL" /\ BitAnd(st.ref, st.funcMask) = BitAnd(v, st.funcMask)

\* the stencil value of the pixel after the fragment
StencilAfter(st, v) ==
    IF st.enabled /\ StencilPasses(st, v) /\ st.dppass = "GL_REPLACE"
    THEN BitAnd(v, 255 - st.writeMask) + BitAnd(st.ref, st.writeMask)
    ELSE v

\* the buffer after a draw that covers the pixels
DrawStencil(stencil, st, pixels) ==
    [x \in DOMAIN stencil |-> IF x \in pixels THEN StencilAfter(st, stencil[x]) ELSE stencil[x]]

\* the pixels of a draw whose fragments reach the shader
Shaded(stencil, st, pixels) == {x \in pixels \cap DOMAIN stencil : StencilPasses(st, stencil[x])}

\* the pixels a draw call's geometry rasterizes to
DrawCoverage(call, inst, shape) ==
    IF inst
    THEN IF call.instanced.count = 0 THEN {} ELSE Covered(call.instanced.allAabb, shape)
    ELSE IF call.geometryType = "R3D_DRAWCALL_GEOMETRY_MODEL"
         THEN Covered(<<call.transform + MeshAabb(call)[1],
                        call.transform + MeshAabb(call)[2]>>, shape)
         ELSE CoveredByQuad(call.quad, shape)

\* the buffer after the draw calls of a sequence were rasterized under st
RECURSIVE StencilEach(_, _, _, _, _)
StencilEach(stencil, st, calls, inst, shape) ==
    IF calls = <<>> THEN stencil
    ELSE StencilEach(DrawStencil(stencil, st, DrawCoverage(Head(calls), inst, shape)),
                     st, Tail(calls), inst, shape)

\* r3d_pass_gbuffer: the stencil is cleared, then every deferred draw marks
\* the geometry bit
GBufferStencil(arrays, shape) ==
    StencilEach(StencilEach(ClearStencil(shape), r3d_stencil_enable_geometry_write,
                            arrays[2], TRUE, shape),
                r3d_stencil_enable_geometry_write, arrays[1], FALSE, shape)

\* r3d_pass_scene_forward_depth_prepass: under the geometry write the
\* instanced forward draws, in array order, then the plain forward draws, in
\* reverse order, mark the geometry bit; r3d_drawcall_raster_depth and
\* r3d_drawcall_raster_depth_inst return before drawing a call that is not a
\* mesh
DepthPrepassStencil(stencil, arrays, shape) ==
    LET IsMesh(call) == call.geometryType = "R3D_DRAWCALL_GEOMETRY_MODEL"
    IN  StencilEach(StencilEach(stencil, r3d_stencil_enable_geometry_write,
                                SelectSeq(arrays[4], IsMesh), TRUE, shape),
                    r3d_stencil_enable_geometry_write,
                    Reverse(SelectSeq(arrays[3], IsMesh)), FALSE, shape)

\* r3d_pass_scene_forward: without the depth pre-pass the pass enables the
\* geometry write and every forward draw, the instanced ones first, marks the
\* geometry bit. After the depth pre-pass the depth test is GL_EQUAL with the
\* geometry write still enabled: a fragment passes only where the pre-pass
\* wrote its depth, a pixel the pre-pass has marked, and the buffer is left
\* as it is
ForwardStencil(stencil, state, arrays, shape) ==
    IF "R3D_FLAG_DEPTH_PREPASS" \in state THEN stencil
    ELSE StencilEach(StencilEach(stencil, r3d_stencil_enable_geometry_write,
                                 arrays[4], TRUE, shape),
                     r3d_stencil_enable_geometry_write, arrays[3], FALSE, shape)

(***************************************************************************)
(* The per-light loop of r3d_pass_deferred_lights. i is the 0-based batch  *)
(* index; an entry of lit records one accumulation draw: the light, its    *)
(* effect ID, the pixels of its volume, the stencil buffer after the       *)
(* volume draw and the pixels the lighting shader ran on.                  *)
(***************************************************************************)
\* uint8_t lightEffectID = (i + 1) % 127; if (lightEffectID == 0) lightEffectID = 1;
LightEffectID(i) == IF (i + 1) % 127 = 0 THEN 1 ELSE (i + 1) % 127

\* one iteration: the volume draw of a light that is not directional, then
\* the full-screen accumulation draw
LightIteration(gpu, i) ==
    LET light == gpu.batch[i + 1]
        data == r3d_registry_get(gpu.reg, light.data)
        lightEffectID == LightEffectID(i)
        volume == Covered(light.aabb, gpu.shape)
        write == IF "R3D_FLAG_STENCIL_TEST" \in gpu.state
                 THEN r3d_stencil_enable_effect_write_with_geometry_test("GL_EQUAL",
                                                                         lightEffectID)
                 ELSE r3d_stencil_enable_effect_write(lightEffectID)
        stencil == IF data.type # "R3D_LIGHT_DIR"
                   THEN DrawStencil(gpu.stencil, write, volume)
                   ELSE gpu.stencil
        test == IF data.type = "R3D_LIGHT_DIR" THEN r3d_stencil_disable
                ELSE r3d_stencil_enable_effect_test("GL_EQUAL", lightEffectID)
    IN  [gpu EXCEPT !.stencil = stencil,
                    !.lit = Append(@, [index |-> i, light |-> light.data, type |-> data.type,
                                       effectID |-> lightEffectID, volume |-> volume,
                                       before |-> gpu.stencil, stencil |-> stencil,
                                       stencilTest |-> test.enabled,
                                       shaded |-> Shaded(stencil, test, Pixels(gpu.shape))])]

\* the loop that leaves the directional lights out
RECURSIVE DeferredLightsLoopVolumesOnly(_, _)
DeferredLightsLoopVolumesOnly(gpu, i) ==
    IF i >= Len(gpu.batch) THEN gpu
    ELSE IF r3d_registry_get(gpu.reg, gpu.batch[i + 1].data).type = "R3D_LIGHT_DIR"
         THEN DeferredLightsLoopVolumesOnly(gpu, i + 1)
         ELSE DeferredLightsLoopVolumesOnly(LightIteration(gpu, i), i + 1)

\* the iterations for the batch indices lo..hi, in ascending order, while the
\* index is inside the batch
RECURSIVE LightsFromTo(_, _, _)
LightsFromTo(gpu, lo, hi) ==
    IF lo > hi \/ lo >= Len(gpu.batch) THEN gpu
    ELSE IF lo = hi THEN LightIteration(gpu, lo)
    ELSE LightsFromTo(LightsFromTo(gpu, lo, (lo + hi) \div 2), (lo + hi) \div 2 + 1, hi)

\* the loop over the batch from index i
DeferredLightsLoop(gpu, i) == LightsFromTo(gpu, i, Len(gpu.batch) - 1)

(***************************************************************************)
(* The light filter of the forward pass. Each of the two forward shaders   *)
(* has R3D_SHADER_FORWARD_NUM_LIGHTS uniform slots uLights[]; the filter   *)
(* runs before every forward draw. The header that gives the number of     *)
(* slots is not part of src/; the model takes 2. A slot is its enabled     *)
(* uniform.                                                                *)
(***************************************************************************)
R3D_SHADER_FORWARD_NUM_LIGHTS == 2

Slots == 0..(R3D_SHADER_FORWARD_NUM_LIGHTS - 1)

\* the uniforms of a shader after it was loaded
NoLights == [i \in Slots |-> [enabled |-> FALSE]]

\* uLights[i] with i outside the array is an access past the end of the
\* array: what the slots hold afterwards is any assignment
SlotOutcomes == [Slots -> [enabled : BOOLEAN]]

\* r3d_pass_scene_forward_filter_and_send_lights: the light is skipped
\* ("continue") when it is not directional and, for a mesh, its box misses
\* mesh->aabb or, for a sprite, a corner of the quad is inside its box
FilterSkips(call, light, type) ==
    /\ type # "R3D_LIGHT_DIR"
    /\ \/ /\ call.geometryType = "R3D_DRAWCALL_GEOMETRY_MODEL"
          /\ ~CheckCollisionBoxes(light.aabb, MeshAabb(call))
       \/ /\ call.geometryType = "R3D_DRAWCALL_GEOMETRY_SPRITE"
          /\ \E j \in 1..Len(call.quad) :
                    /\ call.quad[j] >= Quarters(light.aabb[1])
                    /\ call.quad[j] <= Quarters(light.aabb[2])

\* r3d_pass_scene_forward_instanced_filter_and_send_lights: the light is
\* skipped when it is not directional and its box misses instanced.allAabb
InstancedFilterSkips(call, light, type) ==
    type # "R3D_LIGHT_DIR" /\ ~CheckCollisionBoxes(light.aabb, call.instanced.allAabb)

\* r3d_shader_set_int(uLights[i].enabled, true)
EnableSlot(slots, i, ub) ==
    IF i \in DOMAIN slots THEN [slots EXCEPT ![i].enabled = TRUE] ELSE ub

\* for (i = 0; lightCount < R3D_SHADER_FORWARD_NUM_LIGHTS && i < count; i++):
\* f holds i, lightCount, the slots and the lights sent so far (batch index
\* and slot index written)
RECURSIVE FilterLoop(_, _, _, _, _, _)
FilterLoop(f, call, inst, batch, reg, ub) ==
    IF ~(f.lightCount < R3D_SHADER_FORWARD_NUM_LIGHTS /\ f.i < Len(batch)) THEN f
    ELSE LET light == batch[f.i + 1]
             type == r3d_registry_get(reg, light.data).type
             skip == IF inst THEN InstancedFilterSkips(call, light, type)
                     ELSE FilterSkips(call, light, type)
         IN  IF skip THEN FilterLoop([f EXCEPT !.i = @ + 1], call, inst, batch, reg, ub)
             ELSE FilterLoop([i |-> f.i + 1, lightCount |-> f.lightCount + 1,
                              slots |-> EnableSlot(f.slots, f.i, ub),
                              sent |-> Append(f.sent, [index |-> f.i, slot |-> f.i])],
                             call, inst, batch, reg, ub)

\* for (i = lightCount; i < R3D_SHADER_FORWARD_NUM_LIGHTS; i++) enabled = false
DisableFrom(slots, lightCount) ==
    [i \in DOMAIN slots |-> IF i >= lightCount THEN [enabled |-> FALSE] ELSE slots[i]]

\* the filter before one draw, f being the loop's result: the slots after
\* the trailing loop, the lights sent, and how far the loop went
Filtered(f) ==
    [slots |-> DisableFrom(f.slots, f.lightCount), sent |-> f.sent,
     lightCount |-> f.lightCount, examined |-> f.i]

FilterAndSendLights(call, inst, slots, batch, reg, ub) ==
    Filtered(FilterLoop([i |-> 0, lightCount |-> 0, slots |-> slots, sent |-> <<>>],
                        call, inst, batch, reg, ub))

r3d_pass_scene_forward_filter_and_send_lights(call, slots, batch, reg, ub) ==
    FilterAndSendLights(call, FALSE, slots, batch, reg, ub)

r3d_pass_scene_forward_instanced_filter_and_send_lights(call, slots, batch, reg, ub) ==
    FilterAndSendLights(call, TRUE, slots, batch, reg, ub)

\* the slots and the log after one draw whose filter gave out: an entry of
\* the log is the shader of the draw, the lights sent to it, the number of
\* batch entries the loop went through and the slots enabled when it is
\* rasterized
Logged(acc, inst, out) ==
    [slots |-> out.slots,
     log |-> Append(acc.log, [inst |-> inst, sent |-> out.sent,
                              lightCount |-> out.lightCount, examined |-> out.examined,
                              enabled |-> {i \in Slots : out.slots[i].enabled}])]

\* the draws of one forward array, in order: acc holds the slots of the
\* array's shader and the log; each draw is preceded by the filter; ub holds,
\* draw by draw, the outcome of the filter's accesses past the array
RECURSIVE ForwardEach(_, _, _, _, _, _)
ForwardEach(acc, calls, inst, batch, reg, ub) ==
    IF calls = <<>> THEN acc
    ELSE ForwardEach(Logged(acc, inst,
                            IF inst
                            THEN r3d_pass_scene_forward_instanced_filter_and_send_lights(
                                    Head(calls), acc.slots, batch, reg, Head(ub))
                            ELSE r3d_pass_scene_forward_filter_and_send_lights(
                                    Head(calls), acc.slots, batch, reg, Head(ub))),
                     Tail(calls), inst, batch, reg, Tail(ub))

\* a light of the sequence was uploaded past the last slot
SentPastSlots(sent) == \E j \in 1..Len(sent) : sent[j].slot \notin Slots

\* the outcomes of the accesses past the array in the filter of one draw:
\* any assignment of the slots, the one before the access included, when the
\* filter uploads a light past the last slot
DrawOutcomes(call, inst, batch, reg) ==
    IF SentPastSlots(FilterAndSendLights(call, inst, NoLights, batch, reg, NoLights).sent)
    THEN SlotOutcomes ELSE {NoLights}

\* one outcome for each draw of a forward array, in the order of the draws
ArrayOutcomes(calls, inst, batch, reg) ==
    {ub \in [1..Len(calls) -> SlotOutcomes] :
        \A k \in 1..Len(calls) : ub[k] \in DrawOutcomes(calls[k], inst, batch, reg)}

\* the outcomes of the accesses past the array in a frame: every filter run
\* has its own, for the draws of raster.forwardInst and of raster.forward
FrameOutcomes(arrays, batch, reg) ==
    [forwardInst : ArrayOutcomes(arrays[4], TRUE, batch, reg),
     forward : ArrayOutcomes(arrays[3], FALSE, batch, reg)]

(***************************************************************************)
(* Single-precision arithmetic of the build (float), on integers.          *)
(***************************************************************************)
\* A float is zero (m = 0), m * 2^e with 24 significant bits
\* (2^23 <= m < 2^24), an infinity or a NaN.  Each operation below rounds its
\* exact result to the nearest float, ties to the even mantissa, as the
\* single-precision operations of the build do one by one.
FloatNum(m, e) == [k |-> "num", m |-> m, e |-> e]

FloatInf == [k |-> "inf", m |-> 0, e |-> 0]

FloatNaN == [k |-> "nan", m |-> 0, e |-> 0]

RECURSIVE BitLength(_)
\* the number of bits of n >= 0
BitLength(n) == IF n = 0 THEN 0 ELSE 1 + BitLength(n \div 2)

\* twiceRem / (2 * den) is the fraction dropped after the mantissa m: it
\* rounds m up when above one half, or at one half with m odd
TiesToEven(m, twiceRem, den) == twiceRem > den \/ (twiceRem = den /\ m % 2 = 1)

\* the float m * 2^e, or the next one when up
FloatRounded(m, e, up) ==
    IF ~up THEN FloatNum(m, e)
    ELSE IF m + 1 = 2 ^ 24 THEN FloatNum(2 ^ 23, e + 1) ELSE FloatNum(m + 1, e)

\* the float nearest to (hi * 2^24 + lo) * 2^e, for hi, lo < 2^24
FloatNormalize(hi, lo, e) ==
    IF hi = 0
    THEN IF lo = 0 THEN FloatNum(0, 0)
         ELSE LET s == 24 - BitLength(lo) IN FloatNum(lo * 2 ^ s, e - s)
    ELSE LET L == BitLength(hi)
             m == hi * 2 ^ (24 - L) + lo \div 2 ^ L
         IN  FloatRounded(m, e + L, TiesToEven(m, 2 * (lo % 2 ^ L), 2 ^ L))

\* (float)n for an int n >= 0
FloatOfInt(n) == FloatNormalize(n \div 2 ^ 24, n % 2 ^ 24, 0)

RECURSIVE FloatDivLoop(_, _, _, _)
\* the long division (q + r / b) * 2^e, a bit at a time up to 24 bits of q
FloatDivLoop(q, r, b, e) ==
    IF q >= 2 ^ 23 THEN FloatRounded(q, e, TiesToEven(q, 2 * r, b))
    ELSE LET bit == IF 2 * r >= b THEN 1 ELSE 0
         IN  FloatDivLoop(2 * q + bit, 2 * r - bit * b, b, e - 1)

\* x / y of two floats that are (float) of an int >= 0
FloatDiv(x, y) ==
    IF y.m = 0 THEN IF x.m = 0 THEN FloatNaN ELSE FloatInf
    ELSE IF x.m = 0 THEN FloatNum(0, 0)
    ELSE FloatDivLoop(x.m \div y.m, x.m % y.m, y.m, x.e - y.e)

\* x * y for a float x that is (float) of an int >= 0 and a quotient y; the
\* mantissas are split in halves of 12 bits
FloatMul(x, y) ==
    IF y.k = "nan" THEN FloatNaN
    ELSE IF y.k = "inf" THEN IF x.m = 0 THEN FloatNaN ELSE FloatInf
    ELSE IF x.m = 0 \/ y.m = 0 THEN FloatNum(0, 0)
    ELSE LET xh == x.m \div 4096
             xl == x.m % 4096
             yh == y.m \div 4096
             yl == y.m % 4096
             cross == xh * yl + xl * yh
             low == xl * yl + (cross % 4096) * 4096
         IN  FloatNormalize(xh * yh + cross \div 4096 + low \div 2 ^ 24,
                            low % 2 ^ 24, x.e + y.e)

\* x + 0.5f for a float x >= 0; 0.5 is 2^k units of 2^e
FloatAddHalf(x) ==
    IF x.k # "num" THEN x
    ELSE IF x.m = 0 THEN FloatNum(2 ^ 23, -24)
    ELSE IF x.e >= 1 THEN x
    ELSE IF x.e = 0 THEN FloatRounded(x.m, 0, x.m % 2 = 1)
    ELSE LET k == -1 - x.e
         IN  IF k < 24
             THEN FloatNormalize((x.m + 2 ^ k) \div 2 ^ 24, (x.m + 2 ^ k) % 2 ^ 24, x.e)
             ELSE IF k < 48 THEN FloatNormalize(2 ^ (k - 24), x.m, x.e)
             ELSE FloatNum(2 ^ 23, -24)

\* x > y
FloatGreater(x, y) ==
    IF x.k = "nan" \/ y.k = "nan" THEN FALSE
    ELSE IF x.k = "inf" THEN y.k # "inf"
    ELSE IF y.k = "inf" THEN FALSE
    ELSE IF y.m = 0 THEN x.m > 0
    ELSE IF x.m = 0 THEN FALSE
    ELSE x.e > y.e \/ (x.e = y.e /\ x.m > y.m)

\* a float x >= 0 has a value that an int holds
FloatInInt(x) == x.k = "num" /\ x.e <= 7

\* (int)x for a float x >= 0: the fraction is dropped; outside the range of
\* int the conversion is undefined and gives cast
FloatToInt(x, cast) ==
    IF ~FloatInInt(x) THEN cast
    ELSE IF x.e >= 0 THEN x.m * 2 ^ x.e
    ELSE IF -x.e >= 24 THEN 0
    ELSE x.m \div 2 ^ (-x.e)

(***************************************************************************)
(* The bloom mip chain (r3d_state.c).                                      *)
(***************************************************************************)
\* const int minSize = 8
minSize == 8

\* the outcomes of (int)floor(log2(0.0f)), a conversion of -inf to int
CastOutcomes == {-2147483647 - 1, 0, 2147483647}

RECURSIVE FloorLog2(_)
\* the exact floor(log2(n)) for n >= 1
FloorLog2(n) == IF n < 2 THEN 0 ELSE 1 + FloorLog2(n \div 2)

\* int maxMipChainLength = (int)floor(log2((float)minDimension)): the
\* conversion to float rounds minDimension to 24 significant bits, and the
\* floor of the logarithm of a float m * 2^e, 2^23 <= m < 2^24, is e + 23;
\* one value unless minDimension is 0
MaxMipChainLengths(minDimension) ==
    IF minDimension >= 1 THEN {FloatOfInt(minDimension).e + 23} ELSE CastOutcomes

RECURSIVE MipChainLength(_, _, _)
\* for (; mipChainLength < maxMipChainLength; mipChainLength++)
\*     if ((minDimension >> mipChainLength) < minSize) break;
MipChainLength(minDimension, maxMipChainLength, mipChainLength) ==
    IF mipChainLength < maxMipChainLength /\ minDimension \div (2 ^ mipChainLength) >= minSize
    THEN MipChainLength(minDimension, maxMipChainLength, mipChainLength + 1)
    ELSE mipChainLength

RECURSIVE MipChain(_, _, _)
\* for (i = 0; i < mipChainLength; i++, wMip /= 2, hMip /= 2) { mip->w = wMip; mip->h = hMip; }
MipChain(wMip, hMip, mipChainLength) ==
    IF mipChainLength = 0 THEN <<>>
    ELSE <<[w |-> wMip, h |-> hMip]>> \o MipChain(wMip \div 2, hMip \div 2, mipChainLength - 1)

\* what MemAlloc returns: a block, and for a size of 0 a null pointer or an
\* empty block
MemAlloc(size) == IF size = 0 THEN {"NULL", "empty"} ELSE {"block"}

\* what the read of bloom->mipChain[0].id yields: the id of level 0, and
\* past the end of an empty block a fault or whatever the memory holds
FirstMipReads(mipChainLength) ==
    IF mipChainLength > 0 THEN {"mipChain[0]"} ELSE {"SIGSEGV", "garbage"}

\* the structure after the allocation and the attachment of level 0, for a
\* chain of len levels: the function returns early on a null pointer;
\* mipChain is NULL or <<levels>>, a pointer to the block of the levels
MipChainOutcomes(w, h, len) ==
    {IF alloc = "NULL"
     THEN [NoMipChain EXCEPT !.id = 1]
     ELSE [id |-> 1, mipCount |-> len, mipChain |-> <<MipChain(w, h, len)>>,
           attached |-> read] :
        alloc \in MemAlloc(len), read \in FirstMipReads(len)}

\* R3D.framebuffer.mipChainBloom after r3d_framebuffer_load_mipchain_bloom,
\* called on the zeroed structure: the set of its outcomes
r3d_framebuffer_load_mipchain_bloom(width, height) ==
    LET w == width \div 2
        h == height \div 2
        minDimension == IF w < h THEN w ELSE h
    IN  UNION {MipChainOutcomes(w, h, MipChainLength(minDimension, maxMipChainLength, 0)) :
                  maxMipChainLength \in MaxMipChainLengths(minDimension)}

\* what the bloom pass reads as mipChain[0].id: through a null pointer the
\* read faults
BloomReads(bloom) ==
    IF bloom.mipChain = NULL THEN {"SIGSEGV"} ELSE FirstMipReads(bloom.mipCount)

(***************************************************************************)
(* The passes of R3D_End. A pass maps the GPU-side record to the one after *)
(* it ran: post is the ping-pong buffer, log lists the passes in the order *)
(* they ran, ssao the SSAO ping-pong buffer, io the texture each pass of  *)
(* the two ping-pong chains sampled and the one it wrote, raster the       *)
(* rasterizations, stencil the stencil buffer, lit the accumulation draws  *)
(* of the deferred lighting pass, uLights the light uniforms of the two    *)
(* forward shaders, fwd the forward draws with the lights sent to each;    *)
(* arrays, batch, reg, state and shape are the culled and sorted draw      *)
(* arrays, the light batch, the registry, the flags and the view volume it *)
(* reads, ub the outcomes of the accesses past the uniform slots.           *)
(***************************************************************************)
Ran(gpu, name) == [gpu EXCEPT !.log = Append(@, name)]

RanSwapping(gpu, name) ==
    LET fb == r3d_framebuffer_swap_pingpong(gpu.post)
    IN  [gpu EXCEPT !.post = fb, !.log = Append(@, name),
                    !.io = Append(@, [pass |-> name, read |-> fb.source,
                                      write |-> fb.attached])]

r3d_pass_gbuffer(gpu) ==
    [Ran(gpu, "r3d_pass_gbuffer") EXCEPT !.raster = @ \o GBufferRaster(gpu.arrays),
                                         !.stencil = GBufferStencil(gpu.arrays, gpu.shape)]

r3d_clear_gbuffer(gpu) ==
    [Ran(gpu, "r3d_clear_gbuffer") EXCEPT !.stencil = ClearStencil(gpu.shape)]

\* r3d_framebuffer_swap_pingpong(R3D.framebuffer.pingPongSSAO)
SsaoSwapped(gpu) == [gpu EXCEPT !.ssao = r3d_framebuffer_swap_pingpong(@)]

\* a full-screen draw into the SSAO framebuffer that samples read
SsaoDrawn(gpu, shader, read) ==
    [gpu EXCEPT !.io = Append(@, [pass |-> shader, read |-> read,
                                  write |-> gpu.ssao.attached])]

\* a blur draw that samples the texture it renders to
BlurDrawSamplesTarget(gpu) ==
    SsaoDrawn(gpu, "generate.gaussianBlurDualPass", gpu.ssao.target)

\* a blur draw: uTexture is pingPongSSAO.source
BlurDraw(gpu) == SsaoDrawn(gpu, "generate.gaussianBlurDualPass", gpu.ssao.source)

\* the blur loop of r3d_pass_ssao from iteration i on
RECURSIVE SsaoBlur(_, _)
SsaoBlur(gpu, i) ==
    IF i >= gpu.env.ssaoIterations THEN gpu
    ELSE SsaoBlur(BlurDraw(SsaoSwapped(gpu)), i + 1)

\* the target is attached, the raw occlusion is computed from the G-buffer
\* after a swap, and the result is blurred
r3d_pass_ssao(gpu) ==
    SsaoBlur(SsaoDrawn(SsaoSwapped(Ran([gpu EXCEPT !.ssao.attached = gpu.ssao.target],
                                       "r3d_pass_ssao")),
                       "screen.ssao", "gBuffer"), 0)

\* the ambient pass samples the SSAO target, or the white texture
r3d_pass_deferred_ambient(gpu) ==
    [Ran(gpu, "r3d_pass_deferred_ambient") EXCEPT
        !.io = Append(@, [pass |-> "r3d_pass_deferred_ambient",
                          read |-> IF gpu.env.ssaoEnabled THEN gpu.ssao.target
                                   ELSE "white",
                          write |-> "deferred"])]

r3d_pass_deferred_lights(gpu) == DeferredLightsLoop(Ran(gpu, "r3d_pass_deferred_lights"), 0)

r3d_pass_scene_background(gpu) == Ran(gpu, "r3d_pass_scene_background")

r3d_pass_scene_deferred(gpu) == Ran(gpu, "r3d_pass_scene_deferred")

\* the depth-only draws of the forward arrays, which also mark the geometry
\* bit of the stencil buffer
r3d_pass_scene_forward_depth_prepass(gpu) ==
    [Ran(gpu, "r3d_pass_scene_forward_depth_prepass") EXCEPT
        !.raster = @ \o DepthPrepassRaster(gpu.arrays),
        !.stencil = DepthPrepassStencil(@, gpu.arrays, gpu.shape)]

\* the pass after its draws: inst and plain are the slots and the log after
\* the instanced and after the plain draws
ForwardDrawn(gpu, inst, plain) ==
    [Ran(gpu, "r3d_pass_scene_forward") EXCEPT
        !.raster = @ \o ForwardRaster(gpu.arrays),
        !.stencil = ForwardStencil(@, gpu.state, gpu.arrays, gpu.shape),
        !.uLights = [forward |-> plain.slots, forwardInst |-> inst.slots],
        !.fwd = plain.log]

\* the plain draws, with raster.forward, after the instanced ones
ForwardPlain(gpu, inst) ==
    ForwardDrawn(gpu, inst,
                 ForwardEach([slots |-> gpu.uLights.forward, log |-> inst.log],
                             gpu.arrays[3], FALSE, gpu.batch, gpu.reg, gpu.ub.forward))

\* the instanced draws with raster.forwardInst, then the plain ones
r3d_pass_scene_forward(gpu) ==
    ForwardPlain(gpu, ForwardEach([slots |-> gpu.uLights.forwardInst, log |-> gpu.fwd],
                                  gpu.arrays[4], TRUE, gpu.batch, gpu.reg, gpu.ub.forwardInst))

\* the copy of the scene colour into the post buffer: swap, then blit
r3d_pass_post_init(gpu) ==
    LET fb == r3d_framebuffer_swap_pingpong(gpu.post)
    IN  [gpu EXCEPT !.post = fb, !.log = Append(@, "r3d_pass_post_init"),
                    !.io = Append(@, [pass |-> "r3d_pass_post_init",
                                      read |-> "scene.color", write |-> fb.attached])]

\* the down- and upsampling run over mipCount levels; after the swap the
\* composite binds mipChain[0].id, read as gpu.mipRead: on a fault the draw
\* is not issued and nothing runs after it
r3d_pass_post_bloom(gpu) ==
    IF gpu.mipRead = "SIGSEGV"
    THEN [gpu EXCEPT !.post = r3d_framebuffer_swap_pingpong(@),
                     !.log = Append(@, "r3d_pass_post_bloom"),
                     !.fault = TRUE]
    ELSE RanSwapping(gpu, "r3d_pass_post_bloom")

r3d_pass_post_fog(gpu) == RanSwapping(gpu, "r3d_pass_post_fog")

r3d_pass_post_tonemap(gpu) == RanSwapping(gpu, "r3d_pass_post_tonemap")

\* a stage that is left out
StageSkipped(gpu) == gpu

r3d_pass_post_adjustment(gpu) == RanSwapping(gpu, "r3d_pass_post_adjustment")

r3d_pass_post_fxaa(gpu) == RanSwapping(gpu, "r3d_pass_post_fxaa")

\* int / int of C for a positive divisor: the quotient is truncated toward zero
CDiv(a, b) == IF a >= 0 THEN a \div b ELSE (a + b - 1) \div b

\* the destination of the final blit: the custom target when one is set,
\* the window otherwise
BlitDestination(target) ==
    IF target.id # 0 THEN [width |-> target.texture.width, height |-> target.texture.height]
    ELSE [width |-> GetScreenWidth, height |-> GetScreenHeight]

\* float srcRatio = (float)R3D.state.resolution.width / R3D.state.resolution.height
srcRatio(res) == FloatDiv(FloatOfInt(res.width), FloatOfInt(res.height))

\* float dstRatio = (float)dstW / dstH
dstRatio(dst) == FloatDiv(FloatOfInt(dst.width), FloatOfInt(dst.height))

\* dstW * srcRatio + 0.5f, or dstH * srcRatio + 0.5f
ScaledSide(side, res) == FloatAddHalf(FloatMul(FloatOfInt(side), srcRatio(res)))

\* the side of the destination that the blit computes
BlitScaledSide(res, dst) ==
    IF FloatGreater(srcRatio(res), dstRatio(dst)) THEN ScaledSide(dst.width, res)
    ELSE ScaledSide(dst.height, res)

\* the results that the conversion of the computed side to int can have
\* where it is undefined; 0 stands for a conversion that is defined
BlitCasts(state, res, dst) ==
    IF "R3D_FLAG_ASPECT_KEEP" \in state /\ ~FloatInInt(BlitScaledSide(res, dst))
    THEN CastOutcomes ELSE {0}

\* prev - side of two ints, prev >= 0, in the 32 bits of int
IntSub(prev, side) == IF side = -2147483647 - 1 THEN prev + side ELSE prev - side

\* dstX, dstY, dstW, dstH of r3d_pass_final_blit
FinalBlitRect(state, res, dst, cast) ==
    IF "R3D_FLAG_ASPECT_KEEP" \in state
    THEN IF FloatGreater(srcRatio(res), dstRatio(dst))
         THEN LET dstH == FloatToInt(ScaledSide(dst.width, res), cast)
              IN  [x |-> 0, y |-> CDiv(IntSub(dst.height, dstH), 2), w |-> dst.width, h |-> dstH]
         ELSE LET dstW == FloatToInt(ScaledSide(dst.height, res), cast)
              IN  [x |-> CDiv(IntSub(dst.width, dstW), 2), y |-> 0, w |-> dstW, h |-> dst.height]
    ELSE [x |-> 0, y |-> 0, w |-> dst.width, h |-> dst.height]

\* the blit reads colour attachment 0 of the post framebuffer
r3d_pass_final_blit(gpu) ==
    [Ran(gpu, "r3d_pass_final_blit") EXCEPT
        !.io = Append(@, [pass |-> "r3d_pass_final_blit", read |-> gpu.post.attached,
                          write |-> "dst"]),
        !.blit = FinalBlitRect(gpu.state, gpu.resolution, BlitDestination(gpu.customTarget),
                               gpu.cast)]

r3d_reset_raylib_state(gpu) == Ran(gpu, "r3d_reset_raylib_state")

\* if (cond) pass();
PassIf(cond, pass(_), gpu) == IF cond THEN pass(gpu) ELSE gpu

\* the passes of R3D_End with the copy into the post buffer issued before
\* the forward passes
EndPassesPostBeforeForward(arrays, state, e, gpu) ==
    LET deferred == r3d_has_deferred_calls(arrays)
        forward == r3d_has_forward_calls(arrays)
        g1  == IF deferred THEN r3d_pass_gbuffer(gpu) ELSE r3d_clear_gbuffer(gpu)
        g2  == PassIf(e.ssaoEnabled, r3d_pass_ssao, g1)
        g3  == PassIf(deferred, r3d_pass_deferred_ambient, g2)
        g4  == PassIf(deferred, r3d_pass_deferred_lights, g3)
        g5  == r3d_pass_scene_background(g4)
        g6  == PassIf(deferred, r3d_pass_scene_deferred, g5)
        g7  == r3d_pass_post_init(g6)
        g8  == PassIf(forward /\ "R3D_FLAG_DEPTH_PREPASS" \in state,
                      r3d_pass_scene_forward_depth_prepass, g7)
        g9  == PassIf(forward, r3d_pass_scene_forward, g8)
        g10 == PassIf(e.bloomMode # "R3D_BLOOM_DISABLED", r3d_pass_post_bloom, g9)
        g11 == PassIf(e.fogMode # "R3D_FOG_DISABLED", r3d_pass_post_fog, g10)
        g12 == PassIf(e.tonemapMode # "R3D_TONEMAP_LINEAR" \/ e.tonemapExposure # 1,
                      r3d_pass_post_tonemap, g11)
        g13 == r3d_pass_post_adjustment(g12)
        g14 == PassIf("R3D_FLAG_FXAA" \in state, r3d_pass_post_fxaa, g13)
    IN  IF g10.fault THEN g10 ELSE r3d_reset_raylib_state(r3d_pass_final_blit(g14))

\* the "Rendering!" part of R3D_End: the passes from the G-buffer to the
\* reset, over the culled and sorted arrays; gpu is the record before them
EndPasses(arrays, state, e, gpu) ==
    LET deferred == r3d_has_deferred_calls(arrays)
        forward == r3d_has_forward_calls(arrays)
        g1  == IF deferred THEN r3d_pass_gbuffer(gpu) ELSE r3d_clear_gbuffer(gpu)
        g2  == PassIf(e.ssaoEnabled, r3d_pass_ssao, g1)
        g3  == PassIf(deferred, r3d_pass_deferred_ambient, g2)
        g4  == PassIf(deferred, r3d_pass_deferred_lights, g3)
        g5  == r3d_pass_scene_background(g4)
        g6  == PassIf(deferred, r3d_pass_scene_deferred, g5)
        g7  == PassIf(forward /\ "R3D_FLAG_DEPTH_PREPASS" \in state,
                      r3d_pass_scene_forward_depth_prepass, g6)
        g8  == PassIf(forward, r3d_pass_scene_forward, g7)
        g9  == r3d_pass_post_init(g8)
        g10 == PassIf(e.bloomMode # "R3D_BLOOM_DISABLED", r3d_pass_post_bloom, g9)
        g11 == PassIf(e.fogMode # "R3D_FOG_DISABLED", r3d_pass_post_fog, g10)
        g12 == PassIf(e.tonemapMode # "R3D_TONEMAP_LINEAR" \/ e.tonemapExposure # 1,
                      r3d_pass_post_tonemap, g11)
        g13 == r3d_pass_post_adjustment(g12)
        g14 == PassIf("R3D_FLAG_FXAA" \in state, r3d_pass_post_fxaa, g13)
    IN  IF g10.fault THEN g10 ELSE r3d_reset_raylib_state(r3d_pass_final_blit(g14))

(***************************************************************************)
(* The state after R3D_Init(width, height, f).                             *)
(***************************************************************************)
\* lastCall of a call of the public function fn
Call(fn) ==
    [fn |-> fn, arg |-> {}, n |-> 0, pre |-> <<>>, h |-> NoHandle, ok |-> TRUE,
     fault |-> FALSE]

(***************************************************************************)
(* Internal texture formats (r3d_state.c): the formats the GPU accepts are *)
(* recorded at initialisation; a requested format is replaced by the first *)
(* supported entry of its list of alternatives.                            *)
(***************************************************************************)
\* the alternatives of each format, in table order; the first is the format
fallbacks ==
       "GL_R8" :> <<"GL_R8">>
    @@ "GL_R16F" :> <<"GL_R16F", "GL_R32F", "GL_R8">>
    @@ "GL_R32F" :> <<"GL_R32F", "GL_R16F", "GL_R8">>
    @@ "GL_RG8" :> <<"GL_RG8", "GL_RGBA8">>
    @@ "GL_RG16F" :> <<"GL_RG16F", "GL_RG32F", "GL_RGBA16F", "GL_RG8">>
    @@ "GL_RG32F" :> <<"GL_RG32F", "GL_RG16F", "GL_RGBA32F", "GL_RG8">>
    @@ "GL_RGB565" :> <<"GL_RGB565", "GL_RGB8", "GL_RGBA8">>
    @@ "GL_RGB8" :> <<"GL_RGB8", "GL_SRGB8", "GL_RGBA8", "GL_RGB565">>
    @@ "GL_SRGB8" :> <<"GL_SRGB8", "GL_RGB8", "GL_SRGB8_ALPHA8", "GL_RGBA8">>
    @@ "GL_RGB12" :> <<"GL_RGB12", "GL_RGB16", "GL_RGBA12", "GL_RGB8">>
    @@ "GL_RGB16" :> <<"GL_RGB16", "GL_RGB12", "GL_RGBA16", "GL_RGB8">>
    @@ "GL_RGB9_E5" :> <<"GL_RGB9_E5", "GL_R11F_G11F_B10F", "GL_RGB16F", "GL_RGB32F">>
    @@ "GL_R11F_G11F_B10F" :> <<"GL_R11F_G11F_B10F", "GL_RGB9_E5", "GL_RGB16F", "GL_RGB32F">>
    @@ "GL_RGB16F" :> <<"GL_RGB16F", "GL_RGB32F", "GL_RGBA16F", "GL_R11F_G11F_B10F", "GL_RGB9_E5">>
    @@ "GL_RGB32F" :> <<"GL_RGB32F", "GL_RGB16F", "GL_RGBA32F", "GL_R11F_G11F_B10F">>
    @@ "GL_RGBA4" :> <<"GL_RGBA4", "GL_RGB5_A1", "GL_RGBA8">>
    @@ "GL_RGB5_A1" :> <<"GL_RGB5_A1", "GL_RGBA4", "GL_RGBA8">>
    @@ "GL_RGBA8" :> <<"GL_RGBA8", "GL_SRGB8_ALPHA8", "GL_RGB10_A2", "GL_RGB5_A1">>
    @@ "GL_SRGB8_ALPHA8" :> <<"GL_SRGB8_ALPHA8", "GL_RGBA8", "GL_SRGB8">>
    @@ "GL_RGB10_A2" :> <<"GL_RGB10_A2", "GL_RGBA16", "GL_RGBA8">>
    @@ "GL_RGBA12" :> <<"GL_RGBA12", "GL_RGBA16", "GL_RGB10_A2", "GL_RGBA8">>
    @@ "GL_RGBA16" :> <<"GL_RGBA16", "GL_RGBA12", "GL_RGB10_A2", "GL_RGBA8">>
    @@ "GL_RGBA16F" :> <<"GL_RGBA16F", "GL_RGBA32F", "GL_RGB16F", "GL_RGB10_A2">>
    @@ "GL_RGBA32F" :> <<"GL_RGBA32F", "GL_RGBA16F", "GL_RGB32F", "GL_RGB10_A2">>

InternalFormats == DOMAIN fallbacks

GL_NONE == "GL_NONE"

\* gpu: the formats glGetInternalformativ or a probe allocation accepts
r3d_support_check_texture_internal_formats(gpu) == {fmt \in InternalFormats : fmt \in gpu}

RECURSIVE TestAlternativesWarnFromThird(_, _, _, _)
\* the loop over the alternatives that warns for every substitute but the second entry
TestAlternativesWarnFromThird(internalFormat, alternatives, i, supported) ==
    IF i > Len(alternatives)
    THEN [returned |-> GL_NONE,
          log |-> <<[level |-> "LOG_FATAL", requested |-> internalFormat, used |-> GL_NONE]>>]
    ELSE IF alternatives[i] \in supported
         THEN [returned |-> alternatives[i],
               log |-> IF i > 2
                       THEN <<[level |-> "LOG_WARNING", requested |-> internalFormat,
                               used |-> alternatives[i]]>>
                       ELSE <<>>]
         ELSE TestAlternativesWarnFromThird(internalFormat, alternatives, i + 1, supported)

RECURSIVE TestAlternatives(_, _, _, _)
\* the loop over alternatives[i - 1], 1-based: the first supported one is
\* returned, with a warning when it is not the first entry
TestAlternatives(internalFormat, alternatives, i, supported) ==
    IF i > Len(alternatives)
    THEN [returned |-> GL_NONE,
          log |-> <<[level |-> "LOG_FATAL", requested |-> internalFormat, used |-> GL_NONE]>>]
    ELSE IF alternatives[i] \in supported
         THEN [returned |-> alternatives[i],
               log |-> IF i > 1
                       THEN <<[level |-> "LOG_WARNING", requested |-> internalFormat,
                               used |-> alternatives[i]]>>
                       ELSE <<>>]
         ELSE TestAlternatives(internalFormat, alternatives, i + 1, supported)

\* what a call returns and logs, for a format of the table
BestInternalFormat(internalFormat, supported) ==
    TestAlternatives(internalFormat, fallbacks[internalFormat], 1, supported)

\* texLog before the first call
NoFormatCall == [requested |-> GL_NONE, returned |-> GL_NONE, log |-> <<>>]

(***************************************************************************)
(* The minimal GPU profiler (details/profiling/r3d_prof_min.c). A zone     *)
(* keeps the last R3D_PROF_HISTORY measurements in a ring. A double is     *)
(* modelled exactly: measurements are whole numbers, a mean is the pair of *)
(* the sum and the divisor. A name pointer is NULL or <<name>>.            *)
(***************************************************************************)
R3D_PROF_MAX_ZONES == 64

R3D_PROF_HISTORY == 128

ZoneNames == {"gbuffer", "lights"}

\* 0.0
ZeroMs == [sum |-> 0, samples |-> 1]

\* the zone r3d__find_zone initialises
NewZone(name) ==
    [name |-> name, hist |-> [k \in 0..(R3D_PROF_HISTORY - 1) |-> 0], count |-> 0,
     index |-> 0, last_ms |-> 0]

\* r3d__find_zone: the zones after the call and the position of the zone
\* found or created, 0 for NULL
r3d__find_zone(zones, name) ==
    IF name = <<>> THEN [zones |-> zones, z |-> 0]
    ELSE IF \E i \in 1..Len(zones) : zones[i].name = name[1]
    THEN [zones |-> zones,
          z |-> CHOOSE i \in 1..Len(zones) :
                    /\ zones[i].name = name[1]
                    /\ \A j \in 1..(i - 1) : zones[j].name # name[1]]
    ELSE IF Len(zones) < R3D_PROF_MAX_ZONES
    THEN [zones |-> Append(zones, NewZone(name[1])), z |-> Len(zones) + 1]
    ELSE [zones |-> zones, z |-> 0]

\* the sum of i entries read forwards from idx
RECURSIVE SumForwards(_, _, _)
SumForwards(hist, idx, i) ==
    IF i = 0 THEN 0
    ELSE hist[idx] + SumForwards(hist, (idx + 1) % R3D_PROF_HISTORY, i - 1)

\* the loop of r3d_prof_get_avg_gpu_ms: the sum of the i entries before idx
RECURSIVE SumBackwards(_, _, _)
SumBackwards(hist, idx, i) ==
    IF i = 0 THEN 0
    ELSE hist[(idx - 1 + R3D_PROF_HISTORY) % R3D_PROF_HISTORY]
         + SumBackwards(hist, (idx - 1 + R3D_PROF_HISTORY) % R3D_PROF_HISTORY, i - 1)

\* what r3d_prof_get_avg_gpu_ms returns for the zone at position z
AvgOfZone(zones, z, samples) ==
    IF z = 0 THEN ZeroMs
    ELSE IF zones[z].count = 0 THEN ZeroMs
    ELSE LET n1 == IF samples <= 0 THEN 1 ELSE samples
             n == IF n1 > zones[z].count THEN zones[z].count ELSE n1
         IN  [sum |-> SumBackwards(zones[z].hist, zones[z].index, n), samples |-> n]

\* profOut before the first profiler call
NoProfCall == [fn |-> "none", name |-> <<>>, samples |-> 0, result |-> ZeroMs]

\* R3D.state.frustum.shape before the first R3D_Begin: it rejects nothing
NoFrustum == InfiniteAabb

\* the state after R3D_Init on a GPU that accepts the internal formats gpu
\* and after the calls of the light functions that leave the registry reg
StartedAt(f, gpu, reg, resWidth, resHeight) ==
    /\ flags = f
    /\ resolution = [width |-> resWidth, height |-> resHeight]
    /\ customTarget = NoTarget
    /\ mipChainBloom = NoMipChain
    /\ blitLog = NoBlit
    /\ initFlags = f
    /\ aDrawDeferred = <<>>
    /\ aDrawDeferredInst = <<>>
    /\ aDrawForward = <<>>
    /\ aDrawForwardInst = <<>>
    /\ viewPos = 0
    /\ frustum = NoFrustum
    /\ rLights = reg
    /\ aLightBatch = <<>>
    /\ env = DefaultEnv
    /\ post = r3d_framebuffer_load_pingpong
    /\ pingPongSSAO = NoPingPong
    /\ ioLog = <<>>
    /\ passLog = <<>>
    /\ shadowLog = <<>>
    /\ destroyed = {}
    /\ lastCall = Call("R3D_Init")
    /\ userMaterial = R3D_GetDefaultMaterial
    /\ meshes = LoadedMeshes
    /\ rasterLog = <<>>
    /\ lightLog = <<>>
    /\ uLights = [forward |-> NoLights, forwardInst |-> NoLights]
    /\ forwardLog = <<>>
    /\ support = r3d_support_check_texture_internal_formats(gpu)
    /\ texLog = NoFormatCall
    /\ g_zones = <<>>
    /\ profHist = [name \in ZoneNames |-> <<>>]
    /\ profOut = NoProfCall

\* R3D_Init at the resolution of the window
Started(f, gpu, reg) == StartedAt(f, gpu, reg, GetScreenWidth, GetScreenHeight)

\* R3D_Init on a GPU that accepts the internal formats gpu
R3D_InitGpu(f, gpu) == Started(f, gpu, r3d_registry_create)

\* R3D_Init on a GPU that accepts every format of the table
R3D_Init(f) == R3D_InitGpu(f, InternalFormats)

(***************************************************************************)
(* Public functions: state flags, frame begin, draw submissions.           *)
(***************************************************************************)
lightVars == <<rLights, aLightBatch, shadowLog, destroyed>>

frameVars == <<viewPos, frustum, env, post, pingPongSSAO, passLog>>

R3D_SetState(f) ==
    /\ flags' = SetStateFlags(flags, f)
    /\ lastCall' = [Call("R3D_SetState") EXCEPT !.arg = f]
    /\ UNCHANGED <<endVars, auxVars, setupVars, drawVars, frameVars, lightVars>>

R3D_ClearState(f) ==
    /\ flags' = ClearStateFlags(flags, f)
    /\ lastCall' = [Call("R3D_ClearState") EXCEPT !.arg = f]
    /\ UNCHANGED <<endVars, auxVars, setupVars, drawVars, frameVars, lightVars>>

\* the records of what R3D_End did start empty in every frame
NewFrameLogs ==
    /\ passLog' = <<>>
    /\ rasterLog' = <<>>
    /\ lightLog' = <<>>
    /\ forwardLog' = <<>>
    /\ ioLog' = <<>>
    /\ blitLog' = NoBlit

\* R3D_Begin clearing the two plain arrays only
R3D_BeginPlainOnly(camera) ==
    /\ aDrawForward' = r3d_array_clear
    /\ aDrawDeferred' = r3d_array_clear
    /\ UNCHANGED <<aDrawForwardInst, aDrawDeferredInst>>
    /\ viewPos' = camera.position
    /\ frustum' = r3d_frustum_create(camera)
    /\ lastCall' = [Call("R3D_Begin") EXCEPT !.n = TotalDraws]
    /\ NewFrameLogs
    /\ UNCHANGED <<auxVars, flags, setupVars, env, post, pingPongSSAO, uLights, lightVars>>

R3D_Begin(camera) ==
    /\ aDrawForward' = r3d_array_clear
    /\ aDrawDeferred' = r3d_array_clear
    /\ aDrawForwardInst' = r3d_array_clear
    /\ aDrawDeferredInst' = r3d_array_clear
    /\ viewPos' = camera.position
    /\ frustum' = r3d_frustum_create(camera)
    /\ lastCall' = [Call("R3D_Begin") EXCEPT !.n = TotalDraws]
    /\ NewFrameLogs
    /\ UNCHANGED <<auxVars, flags, setupVars, env, post, pingPongSSAO, uLights, lightVars>>

\* the names of the arguments that are NULL or 0, as lastCall.arg keeps them
NullArgs(pointers, counts) == {name \in DOMAIN pointers : pointers[name] = NULL} \cup {name \in DOMAIN counts : counts[name] = 0}

\* push one draw call to the array its render mode selects; inst tells the
\* instanced pair of arrays from the plain pair
PushDrawCall(drawCall, inst) ==
    IF drawCall.renderMode = "R3D_DRAWCALL_RENDER_FORWARD"
    THEN IF inst
         THEN /\ aDrawForwardInst' = r3d_array_push_back(aDrawForwardInst, drawCall)
              /\ UNCHANGED <<aDrawDeferred, aDrawDeferredInst, aDrawForward>>
         ELSE /\ aDrawForward' = r3d_array_push_back(aDrawForward, drawCall)
              /\ UNCHANGED <<aDrawDeferred, aDrawDeferredInst, aDrawForwardInst>>
    ELSE IF inst
         THEN /\ aDrawDeferredInst' = r3d_array_push_back(aDrawDeferredInst, drawCall)
              /\ UNCHANGED <<aDrawDeferred, aDrawForward, aDrawForwardInst>>
         ELSE /\ aDrawDeferred' = r3d_array_push_back(aDrawDeferred, drawCall)
              /\ UNCHANGED <<aDrawForward, aDrawDeferredInst, aDrawForwardInst>>

\* what a read through material == NULL does (material->billboardMode,
\* material->blendMode): the process faults, or the read yields some value
NullReadOutcomes == {"SIGSEGV"} \cup BlendModes

\* the outcomes of a submission: one, or those of the reads through NULL
ReadOutcomes(material) == IF material = NULL THEN NullReadOutcomes ELSE {material.blendMode}

\* drawCall.material = material ? *material : R3D_GetDefaultMaterial()
MaterialOrDefault(material) ==
    IF material = NULL THEN R3D_GetDefaultMaterial ELSE material

\* the submission after its draw call is built: the array is chosen by the
\* blend mode read through the material pointer
RouteDrawCall(drawCall, read, inst) ==
    IF read = "SIGSEGV" THEN UNCHANGED drawVars
    ELSE PushDrawCall([drawCall EXCEPT !.renderMode = RenderModeOf([blendMode |-> read], flags)],
                      inst)

R3D_DrawMesh(mesh, material, transform) ==
    \E read \in ReadOutcomes(material) :
        /\ IF mesh = NULL THEN UNCHANGED drawVars
           ELSE RouteDrawCall(MeshDrawCall(mesh, MaterialOrDefault(material), transform, flags),
                              read, FALSE)
        /\ lastCall' = [Call("R3D_DrawMesh") EXCEPT
                            !.ok = (mesh # NULL),
                            !.fault = (mesh # NULL /\ read = "SIGSEGV"),
                            !.arg = NullArgs([mesh |-> mesh, material |-> material], <<>>)]
    /\ UNCHANGED <<endVars, auxVars, flags, setupVars, frameVars, lightVars>>

\* instanceTransforms is NULL or the pointer <<"transforms">>
R3D_DrawMeshInstancedPro(mesh, material, globalAabb, globalTransform, instanceTransforms, instanceCount) ==
    \E read \in ReadOutcomes(material) :
        /\ IF mesh = NULL \/ instanceCount = 0 \/ instanceTransforms = NULL
           THEN UNCHANGED drawVars
           ELSE RouteDrawCall(MeshInstDrawCall(mesh, MaterialOrDefault(material), globalAabb,
                                               globalTransform, instanceCount, flags),
                              read, TRUE)
        /\ lastCall' = [Call("R3D_DrawMeshInstancedPro") EXCEPT
                            !.ok = ~(mesh = NULL \/ instanceCount = 0 \/ instanceTransforms = NULL),
                            !.fault = /\ ~(mesh = NULL \/ instanceCount = 0 \/ instanceTransforms = NULL)
                                      /\ read = "SIGSEGV",
                            !.arg = NullArgs([mesh |-> mesh, material |-> material,
                                              instanceTransforms |-> instanceTransforms],
                                             [instanceCount |-> instanceCount])]
    /\ UNCHANGED <<endVars, auxVars, flags, setupVars, frameVars, lightVars>>

\* the loop of R3D_DrawModelPro over the meshes i..meshCount of the model;
\* arrays is <<deferred, forward>>
RECURSIVE DrawModelLoop(_, _, _, _, _)
DrawModelLoop(model, transform, state, i, arrays) ==
    IF i > Len(model.meshes) THEN arrays
    ELSE LET material == model.materials[model.meshMaterials[i]]
             drawCall == MeshDrawCall(<<model.meshes[i]>>, material, transform, state)
         IN  IF drawCall.renderMode = "R3D_DRAWCALL_RENDER_FORWARD"
             THEN DrawModelLoop(model, transform, state, i + 1,
                                <<arrays[1], r3d_array_push_back(arrays[2], drawCall)>>)
             ELSE DrawModelLoop(model, transform, state, i + 1,
                                <<r3d_array_push_back(arrays[1], drawCall), arrays[2]>>)

R3D_DrawModelPro(model, transform) ==
    /\ IF model = NULL THEN UNCHANGED drawVars
       ELSE LET arrays == DrawModelLoop(model[1], transform, flags, 1,
                                        <<aDrawDeferred, aDrawForward>>)
            IN  /\ aDrawDeferred' = arrays[1]
                /\ aDrawForward' = arrays[2]
                /\ UNCHANGED <<aDrawDeferredInst, aDrawForwardInst>>
    /\ lastCall' = [Call("R3D_DrawModelPro") EXCEPT
                        !.n = IF model = NULL THEN 0 ELSE Len(model[1].meshes),
                        !.ok = (model # NULL),
                        !.arg = NullArgs([model |-> model], <<>>)]
    /\ UNCHANGED <<endVars, auxVars, flags, setupVars, frameVars, lightVars>>

\* a sprite submission that queues a default sprite when the pointer is NULL
R3D_DrawSpriteProNullSprite(sprite, position, size) ==
    /\ PushDrawCall(SpriteDrawCall(IF sprite = NULL THEN R3D_GetDefaultMaterial
                                   ELSE sprite[1].material, position, size, flags), FALSE)
    /\ lastCall' = [Call("R3D_DrawSpritePro") EXCEPT !.ok = (sprite # NULL),
                                                     !.arg = NullArgs([sprite |-> sprite], <<>>)]
    /\ UNCHANGED <<endVars, auxVars, flags, setupVars, frameVars, lightVars>>

R3D_DrawSpritePro(sprite, position, size) ==
    /\ IF sprite = NULL THEN UNCHANGED drawVars
       ELSE PushDrawCall(SpriteDrawCall(sprite[1].material, position, size, flags), FALSE)
    /\ lastCall' = [Call("R3D_DrawSpritePro") EXCEPT !.ok = (sprite # NULL),
                                                     !.arg = NullArgs([sprite |-> sprite], <<>>)]
    /\ UNCHANGED <<endVars, auxVars, flags, setupVars, frameVars, lightVars>>

R3D_DrawSpriteInstancedPro(sprite, globalAabb, globalTransform, instanceTransforms, instanceCount) ==
    /\ IF sprite = NULL \/ instanceCount = 0 \/ instanceTransforms = NULL
       THEN UNCHANGED drawVars
       ELSE PushDrawCall(SpriteInstDrawCall(sprite[1].material, globalAabb,
                                            globalTransform, instanceCount, flags), TRUE)
    /\ lastCall' = [Call("R3D_DrawSpriteInstancedPro") EXCEPT
                        !.ok = ~(sprite = NULL \/ instanceCount = 0 \/ instanceTransforms = NULL),
                        !.arg = NullArgs([sprite |-> sprite, instanceTransforms |-> instanceTransforms],
                                         [instanceCount |-> instanceCount])]
    /\ UNCHANGED <<endVars, auxVars, flags, setupVars, frameVars, lightVars>>

\* system is NULL or <<[aabb, count]>>; the particles are its instance data
R3D_DrawParticleSystemEx(system, mesh, material, transform) ==
    \E read \in ReadOutcomes(material) :
        /\ IF system = NULL \/ mesh = NULL \/ system[1].count = 0
           THEN UNCHANGED drawVars
           ELSE RouteDrawCall(MeshInstDrawCall(mesh, MaterialOrDefault(material), system[1].aabb,
                                               transform, system[1].count, flags),
                              read, TRUE)
        /\ lastCall' = [Call("R3D_DrawParticleSystemEx") EXCEPT
                            !.ok = ~(system = NULL \/ mesh = NULL \/ system[1].count = 0),
                            !.fault = /\ ~(system = NULL \/ mesh = NULL \/ system[1].count = 0)
                                      /\ read = "SIGSEGV",
                            !.arg = NullArgs([system |-> system, mesh |-> mesh,
                                              material |-> material],
                                             [instanceCount |->
                                                  IF system = NULL THEN 1 ELSE system[1].count])]
    /\ UNCHANGED <<endVars, auxVars, flags, setupVars, frameVars, lightVars>>

(***************************************************************************)
(* R3D_End: light batch, shadow maps, culling, sorting, then the passes.   *)
(***************************************************************************)
\* the steps of R3D_End before the first pass
EndPrepare(state) ==
    <<"r3d_prepare_process_lights_and_batch", "r3d_pass_shadow_maps">>
    \o (IF "R3D_FLAG_NO_FRUSTUM_CULLING" \notin state
        THEN <<"r3d_prepare_cull_drawcalls">> ELSE <<>>)
    \o <<"r3d_prepare_sort_drawcalls", "r3d_prepare_anim_drawcalls">>

\* the four arrays after the culling step of R3D_End
EndCull(arrays, shape, state) ==
    IF "R3D_FLAG_NO_FRUSTUM_CULLING" \notin state
    THEN r3d_prepare_cull_drawcalls(arrays, shape) ELSE arrays

\* what R3D_End leaves behind: arrays are the culled and sorted arrays,
\* lights and shadows the results of the batching and of the shadow pass,
\* submitted the arrays as they were queued, gpu the record after the passes
EndWrites(arrays, lights, shadows, submitted, gpu) ==
    /\ aDrawDeferred' = arrays[1]
    /\ aDrawDeferredInst' = arrays[2]
    /\ aDrawForward' = arrays[3]
    /\ aDrawForwardInst' = arrays[4]
    /\ rLights' = shadows.reg
    /\ aLightBatch' = lights.batch
    /\ shadowLog' = shadows.rendered
    /\ post' = gpu.post
    /\ pingPongSSAO' = gpu.ssao
    /\ ioLog' = gpu.io
    /\ blitLog' = gpu.blit
    /\ passLog' = EndPrepare(flags) \o gpu.log
    /\ rasterLog' = gpu.raster
    /\ lightLog' = gpu.lit
    /\ uLights' = gpu.uLights
    /\ forwardLog' = gpu.fwd
    /\ lastCall' = [Call("R3D_End") EXCEPT !.n = TotalDraws, !.pre = submitted,
                                            !.fault = gpu.fault]
    /\ UNCHANGED <<auxVars, flags, setupVars, viewPos, frustum, env, destroyed>>

\* the passes of R3D_End over the culled and sorted arrays
EndRender(arrays, lights, shadows, submitted, ub) ==
    \E mipRead \in BloomReads(mipChainBloom),
       cast \in BlitCasts(flags, resolution, BlitDestination(customTarget)) :
    EndWrites(arrays, lights, shadows, submitted,
              EndPasses(arrays, flags, env,
                        [post |-> post, log |-> <<>>, io |-> <<>>,
                         ssao |-> pingPongSSAO, env |-> env,
                         resolution |-> resolution, customTarget |-> customTarget,
                         blit |-> NoBlit, mipRead |-> mipRead, cast |-> cast,
                         fault |-> FALSE,
                         arrays |-> arrays, batch |-> lights.batch,
                         reg |-> shadows.reg, state |-> flags, shape |-> frustum,
                         stencil |-> ClearStencil(frustum), lit |-> <<>>,
                         uLights |-> uLights, fwd |-> <<>>, ub |-> ub,
                         raster |-> ShadowRaster(lights.reg, shadows.rendered, submitted)]))

\* the sorting step of R3D_End and what follows it
EndSort(culled, lights, shadows, submitted) ==
    \E deferred \in SortDeferred(culled[1], viewPos, flags),
       forward \in SortForward(culled[3], viewPos, flags) :
        \E ub \in FrameOutcomes(<<deferred, culled[2], forward, culled[4]>>,
                                 lights.batch, shadows.reg) :
            EndRender(<<deferred, culled[2], forward, culled[4]>>, lights, shadows,
                      submitted, ub)

\* the shadow pass and the culling step of R3D_End and what follows them
EndShadows(lights, submitted) ==
    EndSort(EndCull(submitted, frustum, flags), lights,
            r3d_pass_shadow_maps(lights.reg, lights.batch), submitted)

R3D_End ==
    EndShadows(r3d_prepare_process_lights_and_batch(rLights, frustum),
               <<aDrawDeferred, aDrawDeferredInst, aDrawForward, aDrawForwardInst>>)

(***************************************************************************)
(* Public light functions (r3d_lighting.c is not part of src/): every one  *)
(* looks the handle up and returns without effect when it is not valid.    *)
(***************************************************************************)
R3D_CreateLight(type) ==
    /\ r3d_registry_next_id(rLights) <= MaxBatchLights
    /\ rLights' = r3d_registry_add(rLights, NewLight(type))
    /\ lastCall' = [Call("R3D_CreateLight") EXCEPT
                        !.h = [index |-> r3d_registry_next_id(rLights),
                               generation |-> rLights'.slots[r3d_registry_next_id(rLights)].generation]]
    /\ UNCHANGED <<endVars, auxVars, flags, setupVars, drawVars, frameVars, aLightBatch, shadowLog, destroyed>>

R3D_DestroyLight(h) ==
    /\ LightHandleValid(rLights, h) => rLights.slots[h.index].generation < MaxGen
    /\ IF LightHandleValid(rLights, h)
       THEN /\ rLights' = r3d_registry_remove(rLights, h.index)
            /\ destroyed' = destroyed \cup {h}
       ELSE UNCHANGED <<rLights, destroyed>>
    /\ lastCall' = [Call("R3D_DestroyLight") EXCEPT !.h = h, !.ok = LightHandleValid(rLights, h)]
    /\ UNCHANGED <<endVars, auxVars, flags, setupVars, drawVars, frameVars, aLightBatch, shadowLog>>

\* a light function that, given a valid handle, replaces the light by update
LightCall(fn, h, update) ==
    /\ rLights' = IF LightHandleValid(rLights, h)
                  THEN [rLights EXCEPT !.slots[h.index].light = update]
                  ELSE rLights
    /\ lastCall' = [Call(fn) EXCEPT !.h = h, !.ok = LightHandleValid(rLights, h)]
    /\ UNCHANGED <<endVars, auxVars, flags, setupVars, drawVars, frameVars, aLightBatch, shadowLog, destroyed>>

\* the light a handle's slot holds
SlotLight(h) == rLights.slots[h.index].light

R3D_SetLightActive(h, active) ==
    LightCall("R3D_SetLightActive", h, [SlotLight(h) EXCEPT !.enabled = active])

R3D_SetLightPosition(h, position) ==
    LightCall("R3D_SetLightPosition", h, [SlotLight(h) EXCEPT !.position = position])

R3D_EnableShadow(h) ==
    LightCall("R3D_EnableShadow", h, [SlotLight(h) EXCEPT !.shadow.enabled = TRUE])

R3D_DisableShadow(h) ==
    LightCall("R3D_DisableShadow", h, [SlotLight(h) EXCEPT !.shadow.enabled = FALSE])

R3D_SetShadowUpdateMode(h, mode) ==
    LightCall("R3D_SetShadowUpdateMode", h, [SlotLight(h) EXCEPT !.shadow.mode = mode])

\* the public toggle that marks the shadow map dirty
R3D_UpdateShadowMap(h) ==
    LightCall("R3D_UpdateShadowMap", h, [SlotLight(h) EXCEPT !.shadow.shoudlUpdate = TRUE])

(***************************************************************************)
(* Environment setters (r3d_environment.c is not part of src/).            *)
(***************************************************************************)
\* a setter that writes R3D.env only
EnvCall(fn, e) ==
    /\ env' = e
    /\ lastCall' = Call(fn)
    /\ UNCHANGED <<endVars, auxVars, flags, setupVars, drawVars, viewPos, frustum, post, pingPongSSAO, passLog, lightVars>>

\* The examples call R3D_SetSSAO(true) and R3D_SetBloomMode after R3D_Init,
\* which loads neither resource, and render: the setter that enables a
\* feature loads its framebuffer when it is not loaded (id == 0), and the
\* one that disables it leaves it loaded until r3d_framebuffers_unload
R3D_SetSSAO(enabled) ==
    /\ env' = [env EXCEPT !.ssaoEnabled = enabled]
    /\ pingPongSSAO' = IF enabled /\ pingPongSSAO.id = 0
                       THEN r3d_framebuffer_load_pingpong_ssao
                       ELSE pingPongSSAO
    /\ lastCall' = Call("R3D_SetSSAO")
    /\ UNCHANGED <<endVars, auxVars, flags, setupVars, drawVars, viewPos, frustum, post, passLog, lightVars>>

R3D_SetSSAOIterations(value) ==
    EnvCall("R3D_SetSSAOIterations", [env EXCEPT !.ssaoIterations = value])

R3D_SetBloomMode(mode) ==
    /\ env' = [env EXCEPT !.bloomMode = mode]
    /\ IF mode # "R3D_BLOOM_DISABLED" /\ mipChainBloom.id = 0
       THEN mipChainBloom' \in r3d_framebuffer_load_mipchain_bloom(resolution.width,
                                                                  resolution.height)
       ELSE UNCHANGED mipChainBloom
    /\ lastCall' = [Call("R3D_SetBloomMode") EXCEPT
                        !.fault = (mipChainBloom'.attached = "SIGSEGV")]
    /\ UNCHANGED <<endVars, auxVars, flags, initFlags, resolution, customTarget, drawVars,
                   viewPos, frustum, post, pingPongSSAO, passLog, lightVars>>

R3D_SetFogMode(mode) == EnvCall("R3D_SetFogMode", [env EXCEPT !.fogMode = mode])

R3D_SetTonemapMode(mode) == EnvCall("R3D_SetTonemapMode", [env EXCEPT !.tonemapMode = mode])

R3D_SetTonemapExposure(exposure) ==
    EnvCall("R3D_SetTonemapExposure", [env EXCEPT !.tonemapExposure = exposure])

(***************************************************************************)
(* Specification SpecFlags: R3D_Init with any flag word, then any sequence *)
(* of R3D_SetState / R3D_ClearState calls.                                 *)
(***************************************************************************)
FlagWords ==
    SUBSET (InitOnlyFlags \cup {"R3D_FLAG_FXAA", "R3D_FLAG_FORCE_FORWARD"})

InitFlags == \E f \in FlagWords : R3D_Init(f)

NextFlags ==
    \/ \E f \in FlagWords : R3D_SetState(f)
    \/ \E f \in FlagWords : R3D_ClearState(f)

SpecFlags == InitFlags /\ [][NextFlags]_vars

\* C10: the init-only bits R3D_FLAG_8_BIT_NORMALS and
\* R3D_FLAG_LOW_PRECISION_BUFFERS of the global flags always have the value
\* R3D_Init gave them, and a R3D_SetState (R3D_ClearState) call sets (clears)
\* every other flag it names, also when it names an init-only flag as well.
C10_InitOnlyFlags ==
    /\ flags \cap InitOnlyFlags = initFlags \cap InitOnlyFlags
    /\ [][/\ flags' \cap InitOnlyFlags = initFlags \cap InitOnlyFlags
          /\ lastCall'.fn = "R3D_SetState" =>
                flags' \ InitOnlyFlags = (flags \cup lastCall'.arg) \ InitOnlyFlags
          /\ lastCall'.fn = "R3D_ClearState" =>
                flags' \ InitOnlyFlags = (flags \ lastCall'.arg) \ InitOnlyFlags]_vars

\* a call that named an init-only flag that differs from the Init value,
\* together with another flag, has run and the other flag took effect
C10_Witness ==
    /\ lastCall.fn = "R3D_SetState"
    /\ "R3D_FLAG_8_BIT_NORMALS" \in lastCall.arg
    /\ "R3D_FLAG_8_BIT_NORMALS" \notin initFlags
    /\ "R3D_FLAG_FXAA" \in lastCall.arg
    /\ "R3D_FLAG_FXAA" \notin initFlags
    /\ "R3D_FLAG_FXAA" \in flags

(***************************************************************************)
(* Inputs of the draw submission functions.                                *)
(***************************************************************************)
\* pointers to meshes, NULL included
MeshPointers == {NULL} \cup {<<m>> : m \in Meshes}

\* R3D_Sprite: the part the submission reads
SpritePointers == {NULL} \cup {<<[material |-> m]>> : m \in Materials}

\* aggregate boxes of instanced submissions: none, at the origin, far away
GlobalAabbs == {NullAabb, <<0, 0>>, <<MaxCoord, MaxCoord>>}

TransformPointers == {NULL, <<"instanceTransforms">>}

\* R3D_Model: the addresses of the meshes of its array (&model->meshes[i]),
\* the materials and the material index of every mesh
Models ==
    UNION {[meshes : [1..n -> {NullMesh}],
            materials : {<<R3D_GetDefaultMaterial,
                           [R3D_GetDefaultMaterial EXCEPT !.blendMode = "R3D_BLEND_ALPHA"]>>},
            meshMaterials : [1..n -> 1..2]] : n \in 0..MaxMeshes}

ModelPointers == {NULL} \cup {<<m>> : m \in Models}

\* R3D_ParticleSystem: the aggregate box and the particle count
ParticleSystemPointers ==
    {NULL} \cup {<<[aabb |-> <<0, 0>>, count |-> c]>> : c \in {0, 1}}

(***************************************************************************)
(* Specification SpecSubmit: every submission function, with valid and     *)
(* with rejected arguments, the force-forward flag toggled between         *)
(* submissions, R3D_Begin and R3D_End called in any order.                 *)
(***************************************************************************)
SubmitInitWords == {{}, {"R3D_FLAG_OPAQUE_SORTING", "R3D_FLAG_TRANSPARENT_SORTING"}}

SubmitCamera == [position |-> 0, dir |-> 1]

InitSubmit == \E f \in SubmitInitWords : R3D_Init(f)

NextSubmit ==
    \/ R3D_SetState({"R3D_FLAG_FORCE_FORWARD"})
    \/ R3D_ClearState({"R3D_FLAG_FORCE_FORWARD"})
    \/ R3D_Begin(SubmitCamera)
    \/ /\ TotalDraws < MaxSubmits
       /\ \E mesh \in {NULL, <<NullMesh>>}, material \in Materials, transform \in {0, MaxCoord} :
            R3D_DrawMesh(mesh, material, transform)
    \/ /\ TotalDraws < MaxSubmits
       /\ \E mesh \in {NULL, <<NullMesh>>}, material \in Materials,
             globalAabb \in {NullAabb, <<MaxCoord, MaxCoord>>},
             instanceTransforms \in TransformPointers, instanceCount \in {0, 2} :
            R3D_DrawMeshInstancedPro(mesh, material, globalAabb, 0,
                                     instanceTransforms, instanceCount)
    \/ \E model \in ModelPointers :
            /\ model # NULL => TotalDraws + Len(model[1].meshes) <= MaxSubmits
            /\ R3D_DrawModelPro(model, 0)
    \/ /\ TotalDraws < MaxSubmits
       /\ \E sprite \in SpritePointers, position \in {0, MaxCoord} :
            R3D_DrawSpritePro(sprite, position, 1)
    \/ /\ TotalDraws < MaxSubmits
       /\ \E sprite \in SpritePointers, instanceTransforms \in TransformPointers,
             instanceCount \in {0, 2} :
            R3D_DrawSpriteInstancedPro(sprite, NullAabb, 0, instanceTransforms, instanceCount)
    \/ /\ TotalDraws < MaxSubmits
       /\ \E system \in ParticleSystemPointers, mesh \in {NULL, <<NullMesh>>},
             material \in Materials :
            R3D_DrawParticleSystemEx(system, mesh, material, 0)
    \/ R3D_End

SpecSubmit == InitSubmit /\ [][NextSubmit]_vars

(***************************************************************************)
(* Specification SpecCull: frames of mesh and instanced submissions at     *)
(* positions inside and outside the frustum, for every choice of the       *)
(* culling and sorting flags and two cameras.                              *)
(***************************************************************************)
CullInitWords ==
    SUBSET {"R3D_FLAG_NO_FRUSTUM_CULLING", "R3D_FLAG_OPAQUE_SORTING",
            "R3D_FLAG_TRANSPARENT_SORTING"}

CullCameras == {[position |-> 0, dir |-> 1], [position |-> MaxCoord, dir |-> -1]}

InitCull == \E f \in CullInitWords : R3D_Init(f)

NextCull ==
    \/ \E camera \in CullCameras : R3D_Begin(camera)
    \/ /\ TotalDraws < MaxDraws
       /\ \E mesh \in Meshes, material \in Materials, transform \in Coords :
            R3D_DrawMesh(<<mesh>>, material, transform)
    \/ /\ TotalDraws < MaxDraws
       /\ \E material \in Materials, globalAabb \in GlobalAabbs :
            R3D_DrawMeshInstancedPro(<<NullMesh>>, material, globalAabb, 0,
                                     <<"instanceTransforms">>, 2)
    \/ R3D_End

SpecCull == InitCull /\ [][NextCull]_vars

(***************************************************************************)
(* Properties of the draw submissions and of R3D_Begin (SpecSubmit).       *)
(***************************************************************************)
\* the submission functions that queue one draw call in a plain array, in an
\* instanced array, and the one that queues a draw call per mesh
PlainSubmissions == {"R3D_DrawMesh", "R3D_DrawSpritePro"}

InstancedSubmissions ==
    {"R3D_DrawMeshInstancedPro", "R3D_DrawSpriteInstancedPro", "R3D_DrawParticleSystemEx"}

ModelSubmissions == {"R3D_DrawModelPro"}

\* the routing rule of the specification, on a queued draw call
RoutedForward(call) ==
    call.material.blendMode # "R3D_BLEND_OPAQUE" \/ "R3D_FLAG_FORCE_FORWARD" \in flags

\* arr grew by exactly one entry at its end
GrewByOne(arr) == Len(arr') = Len(arr) + 1 /\ SubSeq(arr', 1, Len(arr)) = arr

\* arr grew at its end (by zero or more entries)
Grew(arr) == Len(arr') >= Len(arr) /\ SubSeq(arr', 1, Len(arr)) = arr

\* every entry of arr' past those of arr is routed as forward says
NewEntriesRouted(arr, forward) ==
    \A i \in (Len(arr) + 1)..Len(arr') : RoutedForward(arr'[i]) = forward

\* the step appended exactly one entry, to the forward or the deferred array
\* of the pair <<deferred, forward>> the rule selects, and changed no other array
OneEntryStep(deferred, forward, others) ==
    /\ UNCHANGED others
    /\ \/ GrewByOne(forward) /\ UNCHANGED deferred /\ RoutedForward(forward'[Len(forward')])
       \/ GrewByOne(deferred) /\ UNCHANGED forward /\ ~RoutedForward(deferred'[Len(deferred')])

RenderModesMatchArrays ==
    /\ \A i \in 1..Len(aDrawDeferred) :
            aDrawDeferred[i].renderMode = "R3D_DRAWCALL_RENDER_DEFERRED"
    /\ \A i \in 1..Len(aDrawDeferredInst) :
            aDrawDeferredInst[i].renderMode = "R3D_DRAWCALL_RENDER_DEFERRED"
    /\ \A i \in 1..Len(aDrawForward) :
            aDrawForward[i].renderMode = "R3D_DRAWCALL_RENDER_FORWARD"
    /\ \A i \in 1..Len(aDrawForwardInst) :
            aDrawForwardInst[i].renderMode = "R3D_DRAWCALL_RENDER_FORWARD"

\* what a step of a mesh, sprite, instanced or particle submission does
SingleSubmissionStep ==
    /\ lastCall'.fn \in PlainSubmissions /\ lastCall'.ok =>
            OneEntryStep(aDrawDeferred, aDrawForward, <<aDrawDeferredInst, aDrawForwardInst>>)
    /\ lastCall'.fn \in InstancedSubmissions /\ lastCall'.ok =>
            OneEntryStep(aDrawDeferredInst, aDrawForwardInst, <<aDrawDeferred, aDrawForward>>)
    /\ lastCall'.fn \in PlainSubmissions \cup InstancedSubmissions \cup ModelSubmissions
       /\ ~lastCall'.ok => UNCHANGED drawVars

\* C2 (as the code has it): a successful mesh, sprite, instanced or particle
\* submission appends exactly one entry to exactly one of the four arrays and
\* leaves the other three unchanged; a successful model submission appends one
\* entry per mesh of the model (none for a model without meshes) to the plain
\* deferred and forward arrays; every appended entry goes to the forward array
\* (forward-instanced for instanced calls) iff its material's blend mode is not
\* Opaque or the force-forward flag is set at submission time, otherwise to
\* the deferred one; every entry of a deferred array has renderMode Deferred
\* and every entry of a forward array renderMode Forward, also after R3D_End
\* culled and sorted the arrays.
C2_RenderModePartition ==
    /\ RenderModesMatchArrays
    /\ [][/\ RenderModesMatchArrays'
          /\ SingleSubmissionStep
          /\ lastCall'.fn \in ModelSubmissions /\ lastCall'.ok =>
                /\ UNCHANGED <<aDrawDeferredInst, aDrawForwardInst>>
                /\ Grew(aDrawDeferred) /\ Grew(aDrawForward)
                /\ Len(aDrawDeferred') + Len(aDrawForward')
                        = Len(aDrawDeferred) + Len(aDrawForward) + lastCall'.n
                /\ NewEntriesRouted(aDrawDeferred, FALSE)
                /\ NewEntriesRouted(aDrawForward, TRUE)]_vars

\* a model of two meshes, one opaque and one alpha-blended, was submitted to
\* empty arrays: one entry went to the deferred and one to the forward array
C2_Witness ==
    /\ lastCall.fn = "R3D_DrawModelPro" /\ lastCall.ok /\ lastCall.n = 2
    /\ Len(aDrawDeferred) = 1 /\ Len(aDrawForward) = 1
    /\ "R3D_FLAG_FORCE_FORWARD" \notin flags

\* C2 as stated: every successful draw submission, model submissions
\* included, appends exactly one entry to exactly one of the four arrays
C2_AsStated ==
    [][/\ SingleSubmissionStep
       /\ lastCall'.fn \in ModelSubmissions /\ lastCall'.ok =>
            OneEntryStep(aDrawDeferred, aDrawForward, <<aDrawDeferredInst, aDrawForwardInst>>)]_vars

\* C4: when R3D_Begin has returned, the counts of the deferred,
\* deferred-instanced, forward and forward-instanced arrays are all 0,
\* whatever the arrays held before the call.
C4_BeginClearsArrays ==
    lastCall.fn = "R3D_Begin" =>
        /\ Len(aDrawDeferred) = 0 /\ Len(aDrawDeferredInst) = 0
        /\ Len(aDrawForward) = 0 /\ Len(aDrawForwardInst) = 0

\* R3D_Begin has returned from a call made while draws were still queued
C4_Witness == lastCall.fn = "R3D_Begin" /\ lastCall.n = MaxSubmits

(***************************************************************************)
(* Properties of the culling and sorting steps of R3D_End (SpecCull).      *)
(***************************************************************************)
\* how often x occurs in seq
Occurrences(seq, x) == Cardinality({i \in 1..Len(seq) : seq[i] = x})

Elements(seq) == {seq[i] : i \in 1..Len(seq)}

\* a and b hold the same entries, each as often, in any order
SameEntries(a, b) ==
    /\ Len(a) = Len(b)
    /\ \A x \in Elements(a) \cup Elements(b) : Occurrences(a, x) = Occurrences(b, x)

\* seq holds exactly the entries of submitted that pass the visibility test
\* against the frustum, each as often as it was submitted
ExactlyTheVisible(seq, submitted, inst) ==
    /\ \A x \in Elements(seq) : IsVisible(x, frustum, inst)
    /\ \A x \in Elements(submitted) :
            Occurrences(seq, x) = IF IsVisible(x, frustum, inst)
                                  THEN Occurrences(submitted, x) ELSE 0
    /\ Elements(seq) \subseteq Elements(submitted)

\* R3D_End has just run with frustum culling not disabled
EndCulled == lastCall.fn = "R3D_End" /\ "R3D_FLAG_NO_FRUSTUM_CULLING" \notin flags

\* C3: after an R3D_End with frustum culling not disabled, each of the four
\* arrays holds exactly the draws submitted to it whose visibility test
\* passes (none dropped, none surviving invisible, none duplicated); an
\* instanced draw whose aggregate box is outside the frustum is gone, and
\* one submitted without a box is still there.
C3_CullingKeepsTheVisible ==
    EndCulled =>
        /\ ExactlyTheVisible(aDrawDeferred, lastCall.pre[1], FALSE)
        /\ ExactlyTheVisible(aDrawDeferredInst, lastCall.pre[2], TRUE)
        /\ ExactlyTheVisible(aDrawForward, lastCall.pre[3], FALSE)
        /\ ExactlyTheVisible(aDrawForwardInst, lastCall.pre[4], TRUE)
        /\ \A k \in {2, 4} : \A i \in 1..Len(lastCall.pre[k]) :
            LET call == lastCall.pre[k][i]
                after == IF k = 2 THEN aDrawDeferredInst ELSE aDrawForwardInst
            IN  /\ call.instanced.allAabb = InfiniteAabb =>
                        Occurrences(after, call) = Occurrences(lastCall.pre[k], call)
                /\ ~CheckCollisionBoxes(frustum, call.instanced.allAabb) =>
                        Occurrences(after, call) = 0

\* three draws were in the deferred array, the first visible and the last two
\* not: the first one is all that is left
C3_Witness ==
    /\ EndCulled
    /\ Len(lastCall.pre[1]) = 3
    /\ IsVisible(lastCall.pre[1][1], frustum, FALSE)
    /\ ~IsVisible(lastCall.pre[1][2], frustum, FALSE)
    /\ ~IsVisible(lastCall.pre[1][3], frustum, FALSE)
    /\ aDrawDeferred = <<lastCall.pre[1][1]>>

\* the distance the comparators order by
CameraDistance(call) == Vector3DistanceSqr(viewPos, call.transform)

\* C8: after R3D_End, with opaque sorting enabled the deferred array is in
\* order of non-decreasing distance from the camera, with transparent
\* sorting enabled the forward array is in order of non-increasing distance,
\* and both hold the entries the culling step of the same R3D_End left.
C8_SortedAfterCulling ==
    lastCall.fn = "R3D_End" =>
        /\ "R3D_FLAG_OPAQUE_SORTING" \in flags =>
                \A i, j \in 1..Len(aDrawDeferred) :
                    i < j => CameraDistance(aDrawDeferred[i]) <= CameraDistance(aDrawDeferred[j])
        /\ "R3D_FLAG_TRANSPARENT_SORTING" \in flags =>
                \A i, j \in 1..Len(aDrawForward) :
                    i < j => CameraDistance(aDrawForward[i]) >= CameraDistance(aDrawForward[j])
        /\ SameEntries(aDrawDeferred, EndCull(lastCall.pre, frustum, flags)[1])
        /\ SameEntries(aDrawForward, EndCull(lastCall.pre, frustum, flags)[3])

\* culling swapped a far draw in front of a nearer one and removed an entry,
\* and the sort put the two that were left in order
C8_Witness ==
    /\ EndCulled
    /\ "R3D_FLAG_OPAQUE_SORTING" \in flags
    /\ Len(lastCall.pre[1]) = 3
    /\ Len(aDrawDeferred) = 2
    /\ aDrawDeferred # EndCull(lastCall.pre, frustum, flags)[1]
    /\ CameraDistance(aDrawDeferred[1]) < CameraDistance(aDrawDeferred[2])

(***************************************************************************)
(* Specification SpecLight: lights are created, configured, destroyed and  *)
(* created again while frames run with the camera at either end of the     *)
(* world.                                                                  *)
(***************************************************************************)
LightCameras == {[position |-> 0, dir |-> -1], [position |-> MaxCoord, dir |-> 1]}

LightPositions == {0, MaxCoord}

InitLight == R3D_Init({})

\* the handles of the first MaxLights slots
LightHandles == {h \in Handles : h.index <= MaxLights}

NextLight ==
    \/ \E camera \in LightCameras : R3D_Begin(camera)
    \/ /\ r3d_registry_next_id(rLights) <= MaxLights
       /\ \E type \in {"R3D_LIGHT_DIR", "R3D_LIGHT_OMNI"} : R3D_CreateLight(type)
    \/ \E h \in LightHandles : R3D_DestroyLight(h)
    \/ \E h \in LightHandles, active \in BOOLEAN : R3D_SetLightActive(h, active)
    \/ \E h \in LightHandles, position \in LightPositions : R3D_SetLightPosition(h, position)
    \/ \E h \in LightHandles : R3D_EnableShadow(h)
    \/ \E h \in LightHandles : R3D_DisableShadow(h)
    \/ \E h \in LightHandles, mode \in UpdateModes : R3D_SetShadowUpdateMode(h, mode)
    \/ \E h \in LightHandles : R3D_UpdateShadowMap(h)
    \/ R3D_End

SpecLight == InitLight /\ [][NextLight]_vars

(***************************************************************************)
(* Specification SpecPost: frames with deferred and forward draws under    *)
(* every choice of the depth pre-pass and FXAA flags and of the SSAO,      *)
(* bloom, fog and tonemap settings.                                        *)
(***************************************************************************)
PostInitWords == SUBSET {"R3D_FLAG_DEPTH_PREPASS", "R3D_FLAG_FXAA"}

InitPost == \E f \in PostInitWords : R3D_Init(f)

\* the caller changes the settings before a frame or inside it, not between
\* R3D_End and the next R3D_Begin
Configuring == lastCall.fn # "R3D_End"

\* an opaque and an alpha-blended material: a deferred and a forward draw
PostMaterials ==
    {R3D_GetDefaultMaterial, [R3D_GetDefaultMaterial EXCEPT !.blendMode = "R3D_BLEND_ALPHA"]}

NextPost ==
    \/ R3D_Begin(SubmitCamera)
    \/ /\ TotalDraws < MaxSubmits
       /\ \E material \in PostMaterials : R3D_DrawMesh(<<NullMesh>>, material, 0)
    \/ Configuring /\ \E enabled \in BOOLEAN : R3D_SetSSAO(enabled)
    \/ Configuring /\ \E mode \in BloomModes : R3D_SetBloomMode(mode)
    \/ Configuring /\ \E mode \in FogModes : R3D_SetFogMode(mode)
    \/ Configuring /\ \E mode \in TonemapModes : R3D_SetTonemapMode(mode)
    \/ Configuring /\ \E exposure \in Exposures : R3D_SetTonemapExposure(exposure)
    \/ R3D_End

SpecPost == InitPost /\ [][NextPost]_vars

(***************************************************************************)
(* Properties of the light registry and the shadow cadence (SpecLight).    *)
(***************************************************************************)
\* the registry ids the visible-light batch refers to
BatchIds(batch) == {batch[i].data : i \in 1..Len(batch)}

\* the registry ids whose shadow map a shadow pass rendered
RenderedIds(rendered) == {rendered[i] : i \in 1..Len(rendered)}

SlotIds == 1..Len(rLights.slots)

\* no destroyed handle is valid, and after R3D_End the batch refers to live
\* lights only
NoStaleLight ==
    /\ \A h \in destroyed : ~LightHandleValid(rLights, h)
    /\ lastCall.fn = "R3D_End" =>
            \A id \in BatchIds(aLightBatch) : r3d_registry_is_valid(rLights, id)

\* C5: once R3D_DestroyLight(h) has destroyed h, h is invalid for good, also
\* when its slot holds a new light: a call given h is rejected and leaves
\* every light of the registry as it was, and the batch R3D_End builds refers
\* to no destroyed light.
C5_StaleHandlesRejected ==
    /\ NoStaleLight
    /\ [][/\ NoStaleLight'
          /\ lastCall'.h \in destroyed => ~lastCall'.ok /\ rLights' = rLights]_vars

\* a call came in with a destroyed handle whose slot holds a new, enabled
\* light by now
C5_Witness ==
    /\ lastCall.fn = "R3D_SetLightActive"
    /\ lastCall.h \in destroyed
    /\ ~lastCall.ok
    /\ r3d_registry_is_valid(rLights, lastCall.h.index)
    /\ rLights.slots[lastCall.h.index].light.enabled

\* C6: in an R3D_End, the shadow map of a light in Manual update mode is
\* rendered iff the light is in the visible batch of that R3D_End, has
\* shadows enabled and has its should-update flag set; the render clears the
\* flag, and an R3D_End that does not render the map leaves the flag as it
\* was (so the renderer never sets it, and a flag set while the light is
\* disabled or outside the frustum stays set until the map is rendered).
C6_ManualShadowCadence ==
    [][lastCall'.fn = "R3D_End" =>
        \A id \in SlotIds :
            LET light == rLights.slots[id].light
                after == rLights'.slots[id].light
                rendered == id \in RenderedIds(shadowLog')
            IN  light.shadow.mode = "R3D_SHADOW_UPDATE_MANUAL" =>
                    /\ rendered <=> /\ id \in BatchIds(aLightBatch')
                                    /\ light.shadow.enabled
                                    /\ light.shadow.shoudlUpdate
                    /\ rendered => ~after.shadow.shoudlUpdate
                    /\ ~rendered => after.shadow.shoudlUpdate = light.shadow.shoudlUpdate]_vars

\* an R3D_End has rendered the shadow map of a Manual light and cleared its flag
C6_Witness ==
    /\ lastCall.fn = "R3D_End"
    /\ shadowLog = <<1>>
    /\ rLights.slots[1].light.shadow.mode = "R3D_SHADOW_UPDATE_MANUAL"
    /\ ~rLights.slots[1].light.shadow.shoudlUpdate

\* C7: in an R3D_End, a light is in the visible batch iff it is a live,
\* enabled light that is directional or whose box intersects the frustum,
\* and the shadow map of every light of the batch that is in Continuous
\* update mode with shadows enabled is rendered in that R3D_End.
C7_ContinuousShadowCadence ==
    [][lastCall'.fn = "R3D_End" =>
        \A id \in SlotIds :
            LET light == rLights.slots[id].light
            IN  /\ id \in BatchIds(aLightBatch') <=>
                        /\ rLights.slots[id].valid
                        /\ light.enabled
                        /\ \/ light.type = "R3D_LIGHT_DIR"
                           \/ CheckCollisionBoxes(frustum, <<light.position - LightRange,
                                                             light.position + LightRange>>)
                /\ /\ id \in BatchIds(aLightBatch')
                   /\ light.shadow.enabled
                   /\ light.shadow.mode = "R3D_SHADOW_UPDATE_CONTINUOUS"
                   => id \in RenderedIds(shadowLog')]_vars

\* an R3D_End has rendered the shadow map of an omni light in Continuous mode
\* that lives in a slot a destroyed light had before
C7_Witness ==
    /\ lastCall.fn = "R3D_End"
    /\ shadowLog = <<1>>
    /\ rLights.slots[1].light.type = "R3D_LIGHT_OMNI"
    /\ rLights.slots[1].light.shadow.mode = "R3D_SHADOW_UPDATE_CONTINUOUS"
    /\ rLights.slots[1].generation = 1

(***************************************************************************)
(* Properties of the pass order and of the post ping-pong (SpecPost).      *)
(***************************************************************************)
\* the position of pass name in log, 0 when it did not run
PassIndex(log, name) ==
    IF \E i \in 1..Len(log) : log[i] = name
    THEN CHOOSE i \in 1..Len(log) : log[i] = name
    ELSE 0

\* the passes the ordering contract names, in contract order
ContractOrder ==
    <<"r3d_pass_deferred_lights", "r3d_pass_scene_deferred",
      "r3d_pass_scene_forward_depth_prepass", "r3d_pass_scene_forward",
      "r3d_pass_post_init", "r3d_pass_post_bloom", "r3d_pass_post_fog",
      "r3d_pass_post_tonemap", "r3d_pass_post_adjustment", "r3d_pass_post_fxaa",
      "r3d_pass_final_blit">>

\* C1: the passes of an R3D_End that ran, ran once each and in the order
\* deferred per-light accumulation, deferred composite, forward depth
\* pre-pass, forward colour pass, the post chain starting with the copy of
\* the scene colour into the post buffer, final blit; so no post pass comes
\* before the forward pass and no forward pass before the deferred composite.
C1_PassOrder ==
    lastCall.fn = "R3D_End" =>
        /\ \A i, j \in 1..Len(passLog) : passLog[i] = passLog[j] => i = j
        /\ \A a, b \in 1..Len(ContractOrder) :
            /\ a < b
            /\ PassIndex(passLog, ContractOrder[a]) > 0
            /\ PassIndex(passLog, ContractOrder[b]) > 0
            => PassIndex(passLog, ContractOrder[a]) < PassIndex(passLog, ContractOrder[b])
        /\ PassIndex(passLog, "r3d_pass_post_init") > 0
        /\ PassIndex(passLog, "r3d_pass_final_blit") > 0

\* an R3D_End ran every pass of the contract: deferred and forward draws were
\* queued, the depth pre-pass, bloom, fog, tonemapping and FXAA were all on
C1_Witness ==
    /\ lastCall.fn = "R3D_End"
    /\ \A a \in 1..Len(ContractOrder) : PassIndex(passLog, ContractOrder[a]) > 0

\* the passes that swap the post ping-pong before they write
SwappingPasses ==
    {"r3d_pass_post_init", "r3d_pass_post_bloom", "r3d_pass_post_fog",
     "r3d_pass_post_tonemap", "r3d_pass_post_adjustment", "r3d_pass_post_fxaa"}

\* the number of swapping passes in log
SwapCount(log) == Cardinality({i \in 1..Len(log) : log[i] \in SwappingPasses})

\* fb with source and target exchanged and the new target attached
Exchanged(fb) ==
    [id |-> fb.id, target |-> fb.source, source |-> fb.target, attached |-> fb.source]

\* C9: the framebuffer always has its target attached; two swaps give back
\* the {source, target} assignment and one swap exchanges it; an R3D_End
\* leaves the assignment as it found it when an even number of swapping
\* passes ran (the copy of the scene colour included) and exchanged when an
\* odd number ran; no other function touches it, so it persists into the
\* next frame.
C9_PingPongParity ==
    /\ post.attached = post.target
    /\ [][/\ post'.attached = post'.target
          /\ r3d_framebuffer_swap_pingpong(post) = Exchanged(post)
          /\ r3d_framebuffer_swap_pingpong(r3d_framebuffer_swap_pingpong(post)) = post
          /\ lastCall'.fn = "R3D_End" =>
                post' = IF SwapCount(passLog') % 2 = 0 THEN post ELSE Exchanged(post)
          /\ lastCall'.fn # "R3D_End" => post' = post]_vars

\* an R3D_End with three swapping passes has left the final image in the
\* texture that was the source at load time
C9_Witness ==
    /\ lastCall.fn = "R3D_End"
    /\ SwapCount(passLog) = 3
    /\ post.target = PostTextures[2]
    /\ post.source = PostTextures[1]

(***************************************************************************)
(* Specification SpecMaterial: the caller keeps one R3D_Material object,   *)
(* passes it to the submission functions of r3d_core.c and writes to it    *)
(* after the submissions. The frames are filled and begun again; none is   *)
(* rendered, since what a rasterization reads after such a write depends   *)
(* on the declaration of r3d_drawcall_t, on which r3d_core.c and           *)
(* r3d_drawcall.c differ.                                                  *)
(***************************************************************************)
\* the values the caller gives its material object
CallerMaterials ==
    {R3D_GetDefaultMaterial,
     [R3D_GetDefaultMaterial EXCEPT !.blendMode = "R3D_BLEND_ALPHA"],
     [blendMode |-> "R3D_BLEND_ALPHA", cullMode |-> "R3D_CULL_NONE",
      shadowCastMode |-> "R3D_SHADOW_CAST_DISABLED",
      albedo |-> [color |-> "RED", texture |-> "user"]]}

\* the caller assigns fields of its own material object
CallerWritesMaterial(m) ==
    /\ m # userMaterial
    /\ userMaterial' = m
    /\ UNCHANGED <<endVars, meshes, support, texLog, g_zones, profHist, profOut>>
    /\ UNCHANGED <<flags, setupVars, drawVars, frameVars, lightVars, lastCall>>

MaterialLight == [index |-> 1, generation |-> 0]

InitMaterial == R3D_Init({})

NextMaterial ==
    \/ \E m \in CallerMaterials : CallerWritesMaterial(m)
    \/ R3D_Begin(SubmitCamera)
    \/ /\ TotalDraws < MaxSubmits
       /\ R3D_DrawMesh(<<NullMesh>>, userMaterial, 0)
    \/ /\ TotalDraws < MaxSubmits
       /\ R3D_DrawMeshInstancedPro(<<NullMesh>>, userMaterial, NullAabb, 0,
                                   <<"instanceTransforms">>, 2)
    \/ /\ TotalDraws < MaxSubmits
       /\ R3D_DrawModelPro(<<[meshes |-> <<NullMesh>>, materials |-> <<userMaterial>>,
                              meshMaterials |-> <<1>>]>>, 0)
    \/ /\ TotalDraws < MaxSubmits
       /\ R3D_DrawSpritePro(<<[material |-> userMaterial]>>, 0, 1)

SpecMaterial == InitMaterial /\ [][NextMaterial]_vars

(***************************************************************************)
(* Properties of the material of a queued draw call.                       *)
(***************************************************************************)
\* the material values of the draw calls of a sequence, in order
MaterialsOf(calls) == [i \in 1..Len(calls) |-> calls[i].material]

\* the material values one pass of the last R3D_End rasterized with, in order
PassMaterials(log, pass) ==
    LET OfPass(e) == e.pass = pass
    IN  MaterialsOf(SelectSeq(log, OfPass))

\* a submission appended to the array: the new entry holds the material value
\* the caller's object has at that moment
AppendedCopy(arr) ==
    Len(arr') = Len(arr) + 1 => arr'[Len(arr')].material = userMaterial

\* the submission functions of r3d_core.c store the material by value
\* (SpecMaterial): the entry appended by a submission holds the value the
\* caller's material has at that moment, and a later write of the caller to
\* its material changes no queued draw call and no array
MaterialStoredAtSubmission ==
    [][/\ AppendedCopy(aDrawDeferred) /\ AppendedCopy(aDrawDeferredInst)
       /\ AppendedCopy(aDrawForward) /\ AppendedCopy(aDrawForwardInst)
       /\ userMaterial' # userMaterial => UNCHANGED drawVars
      ]_vars

\* the caller made its material transparent, red and shadowless after the
\* submission; the draw is queued in the deferred array, opaque and white
MaterialWrittenAfterSubmission ==
    /\ userMaterial.blendMode = "R3D_BLEND_ALPHA"
    /\ userMaterial.shadowCastMode = "R3D_SHADOW_CAST_DISABLED"
    /\ userMaterial.albedo.color = "RED"
    /\ Len(aDrawDeferred) = 1
    /\ aDrawForward = <<>>
    /\ aDrawDeferred[1].material = R3D_GetDefaultMaterial

(***************************************************************************)
(* Properties of the rejected submissions (SpecSubmit).                    *)
(***************************************************************************)
DrawSubmissions ==
    {"R3D_DrawMesh", "R3D_DrawMeshInstancedPro", "R3D_DrawModelPro", "R3D_DrawSpritePro",
     "R3D_DrawSpriteInstancedPro", "R3D_DrawParticleSystemEx"}

\* the renderer state but the record of the last call
rendererVars == <<endVars, auxVars, flags, setupVars, drawVars, frameVars, lightVars>>

\* C12: a draw submission whose mesh, model, sprite or particle system is
\* NULL, and an instanced submission whose instance count is 0 or whose
\* transform array is NULL, returns without appending to any of the four
\* arrays and without changing any other renderer state.
C12_RejectedSubmissionChangesNothing ==
    [][(lastCall'.fn \in DrawSubmissions /\ lastCall'.arg # {}) =>
            /\ ~lastCall'.ok
            /\ UNCHANGED rendererVars]_vars

\* an instanced submission with instance count 0 was rejected while a draw
\* call queued before it is still in its array
C12_Witness ==
    /\ lastCall.fn = "R3D_DrawMeshInstancedPro"
    /\ lastCall.arg = {"instanceCount"}
    /\ ~lastCall.ok
    /\ TotalDraws = 1

(***************************************************************************)
(* Specification SpecFormat: r3d_texture_get_best_internal_format called   *)
(* for every format of the table on GPUs that support every subset of the  *)
(* format's alternatives, with the other formats all or none supported.    *)
(***************************************************************************)
\* the sets of formats the GPUs of the check accept
GpuFormatSets ==
    UNION {{s \cup rest : s \in SUBSET Elements(fallbacks[fmt]),
                          rest \in {{}, InternalFormats \ Elements(fallbacks[fmt])}}
           : fmt \in InternalFormats}

InitFormat == \E gpu \in GpuFormatSets : R3D_InitGpu({}, gpu)

r3d_texture_get_best_internal_format(internalFormat) ==
    LET out == BestInternalFormat(internalFormat, support)
    IN  /\ texLog' = [requested |-> internalFormat, returned |-> out.returned,
                      log |-> out.log]
        /\ UNCHANGED <<endVars, userMaterial, meshes, support, g_zones, profHist, profOut>>
        /\ UNCHANGED <<flags, setupVars, drawVars, frameVars, lightVars, lastCall>>

NextFormat == \E internalFormat \in InternalFormats :
                    r3d_texture_get_best_internal_format(internalFormat)

SpecFormat == InitFormat /\ [][NextFormat]_vars

(***************************************************************************)
(* Properties of the format fallback (SpecFormat).                         *)
(***************************************************************************)
\* the positions of the supported entries in the preference list of fmt
SupportedPositions(fmt) ==
    {i \in 1..Len(fallbacks[fmt]) : fallbacks[fmt][i] \in support}

Minimum(S) == CHOOSE x \in S : \A y \in S : x <= y

LogsOf(level) ==
    LET AtLevel(e) == e.level = level
    IN  SelectSeq(texLog.log, AtLevel)

\* C13: r3d_texture_get_best_internal_format(f) returns the first format of
\* f's preference list that the GPU supports: f itself with no warning when f
\* is supported; otherwise the first supported fallback in table order,
\* different from f, with exactly one warning that names f and the substitute;
\* and GL_NONE with one fatal log and no warning when no entry is supported.
C13_FirstSupportedFormat ==
    texLog # NoFormatCall =>
        LET f == texLog.requested
            positions == SupportedPositions(f)
        IN  /\ fallbacks[f][1] = f
            /\ f \in support =>
                    /\ texLog.returned = f
                    /\ texLog.log = <<>>
            /\ (f \notin support /\ positions # {}) =>
                    /\ texLog.returned = fallbacks[f][Minimum(positions)]
                    /\ texLog.returned # f
                    /\ texLog.returned \in support
                    /\ texLog.log = <<[level |-> "LOG_WARNING", requested |-> f,
                                       used |-> texLog.returned]>>
            /\ positions = {} =>
                    /\ texLog.returned = GL_NONE
                    /\ Len(LogsOf("LOG_FATAL")) = 1
                    /\ LogsOf("LOG_WARNING") = <<>>
                    /\ Len(texLog.log) = 1

\* GL_RGB16F requested on a GPU without RGB16F and RGB32F: the third entry of
\* the list, GL_RGBA16F, is returned although later entries are supported too
C13_Witness ==
    /\ texLog.requested = "GL_RGB16F"
    /\ "GL_RGB16F" \notin support
    /\ "GL_RGB32F" \notin support
    /\ {"GL_RGBA16F", "GL_R11F_G11F_B10F", "GL_RGB9_E5"} \subseteq support
    /\ texLog.returned = "GL_RGBA16F"
    /\ Len(texLog.log) = 1

(***************************************************************************)
(* Specification SpecDeferred: frames of opaque mesh draws inside and      *)
(* outside the view volume, lit by up to MaxBatchLights directional and    *)
(* omni lights that are enabled and moved, with and without                *)
(* R3D_FLAG_STENCIL_TEST.                                                  *)
(***************************************************************************)
DeferredInitWords == {{}, {"R3D_FLAG_STENCIL_TEST"}}

\* the handles R3D_CreateLight returns first
FirstHandles == {h \in Handles : h.generation = 0}

InitDeferred == \E f \in DeferredInitWords : R3D_Init(f)

NextDeferred ==
    \/ R3D_Begin(SubmitCamera)
    \/ /\ TotalDraws < MaxSubmits
       /\ \E transform \in {0, MaxCoord} :
            R3D_DrawMesh(<<NullMesh>>, R3D_GetDefaultMaterial, transform)
    \/ \E type \in {"R3D_LIGHT_DIR", "R3D_LIGHT_OMNI"} : R3D_CreateLight(type)
    \/ \E h \in FirstHandles : R3D_SetLightActive(h, TRUE)
    \/ \E h \in FirstHandles : R3D_SetLightPosition(h, MaxCoord)
    \/ R3D_End

SpecDeferred == InitDeferred /\ [][NextDeferred]_vars

(***************************************************************************)
(* Properties of the deferred lighting pass (SpecDeferred).                *)
(***************************************************************************)
\* the lights of the accumulation draws, in the order they ran
LitLights(log) == [k \in 1..Len(log) |-> log[k].light]

\* the lights of a batch, in batch order
BatchLights(batch) == [k \in 1..Len(batch) |-> batch[k].data]

\* C14: in a frame with one visible opaque mesh draw and one enabled
\* directional light without shadows the draw is in the deferred array, no
\* shadow map is rendered and the deferred lighting accumulation runs exactly
\* once, for that light; in general an R3D_End in which at least one deferred
\* draw survives culling runs the accumulation exactly once per light of the
\* visible batch, in batch order, and an R3D_End in which none survives runs
\* it zero times.
C14_LightingOncePerBatchLight ==
    lastCall.fn = "R3D_End" =>
        /\ r3d_has_deferred_calls(<<aDrawDeferred, aDrawDeferredInst>>) =>
                /\ LitLights(lightLog) = BatchLights(aLightBatch)
                /\ Occurrences(passLog, "r3d_pass_deferred_lights") = 1
        /\ ~r3d_has_deferred_calls(<<aDrawDeferred, aDrawDeferredInst>>) =>
                /\ lightLog = <<>>
                /\ Occurrences(passLog, "r3d_pass_deferred_lights") = 0
        /\ (/\ Len(aDrawDeferred) = 1
            /\ Len(aLightBatch) = 1
            /\ rLights.slots[aLightBatch[1].data].light.type = "R3D_LIGHT_DIR"
            /\ ~rLights.slots[aLightBatch[1].data].light.shadow.enabled) =>
                /\ shadowLog = <<>>
                /\ Len(lightLog) = 1
                /\ lightLog[1].light = aLightBatch[1].data

\* the scenario: one visible opaque mesh and one enabled directional light
\* without shadows, nothing else queued, R3D_End has run
C14_Witness ==
    /\ lastCall.fn = "R3D_End"
    /\ lastCall.n = 1
    /\ Len(aDrawDeferred) = 1
    /\ aDrawDeferred[1].material.blendMode = "R3D_BLEND_OPAQUE"
    /\ aDrawForward = <<>>
    /\ Len(rLights.slots) = 1
    /\ rLights.slots[1].light.type = "R3D_LIGHT_DIR"
    /\ rLights.slots[1].light.enabled
    /\ BatchLights(aLightBatch) = <<1>>
    /\ shadowLog = <<>>
    /\ LitLights(lightLog) = <<1>>

\* the pixels of a stencil buffer that carry the geometry bit
GeometryPixels(stencil) == {x \in DOMAIN stencil : stencil[x] >= R3D_STENCIL_GEOMETRY_BIT}

\* bits 0..6 of a stencil value
EffectBits(v) == v % (R3D_STENCIL_EFFECT_MASK + 1)

\* C16: with R3D_FLAG_STENCIL_TEST set, the lighting shader of a light that is
\* not directional shades exactly the pixels covered by the light's volume
\* that carry the geometry bit: the volume draw writes the light's effect ID
\* into bits 0..6 of exactly those pixels and changes bit 7 of no pixel, so
\* no background pixel is lit; a directional light is shaded with the stencil
\* test disabled.
C16_StencilLimitsLightToGeometry ==
    (lastCall.fn = "R3D_End" /\ "R3D_FLAG_STENCIL_TEST" \in flags) =>
        \A k \in 1..Len(lightLog) :
            LET e == lightLog[k]
                target == e.volume \cap GeometryPixels(e.before)
            IN  /\ e.type = "R3D_LIGHT_DIR" => ~e.stencilTest
                /\ e.type # "R3D_LIGHT_DIR" =>
                        /\ e.stencilTest
                        /\ GeometryPixels(e.stencil) = GeometryPixels(e.before)
                        /\ \A x \in target : EffectBits(e.stencil[x]) = e.effectID
                        /\ \A x \in DOMAIN e.stencil \ target : e.stencil[x] = e.before[x]
                        /\ e.shaded = target

(***************************************************************************)
(* Specification SpecProf: measurements pushed to two zones, one of them   *)
(* past the length of the history ring, averages read for existing and     *)
(* missing zones and for sample counts below, at and above the number of   *)
(* stored values, and resets in between.                                   *)
(***************************************************************************)
MaxPushes == 130        \* measurements pushed to the first zone between two resets
MaxFreePushes == 1      \* the same for the second zone; pushes whose value is free

ProfValues == {1, 2}

SampleCounts == {0, 1, 2, R3D_PROF_HISTORY, R3D_PROF_HISTORY + 1}

NamePointers == {<<>>} \cup {<<name>> : name \in ZoneNames}

profVars == <<g_zones, profHist, profOut>>

notProfVars == <<endVars, userMaterial, meshes, support, texLog, flags, setupVars, drawVars, frameVars, lightVars, lastCall>>

\* g_zone_count = 0: no zone is left
r3d_prof_init ==
    /\ g_zones' = <<>>
    /\ profHist' = [name \in ZoneNames |-> <<>>]
    /\ profOut' = [NoProfCall EXCEPT !.fn = "r3d_prof_init"]
    /\ UNCHANGED notProfVars

r3d_prof_reset ==
    /\ g_zones' = [i \in 1..Len(g_zones) |-> NewZone(g_zones[i].name)]
    /\ profHist' = [name \in ZoneNames |-> <<>>]
    /\ profOut' = [NoProfCall EXCEPT !.fn = "r3d_prof_reset"]
    /\ UNCHANGED notProfVars

r3d_prof_push_gpu_ms(name, ms) ==
    LET found == r3d__find_zone(g_zones, name)
    IN  /\ g_zones' = IF found.z = 0 THEN found.zones
                      ELSE [found.zones EXCEPT
                                ![found.z].last_ms = ms,
                                ![found.z].hist[found.zones[found.z].index] = ms,
                                ![found.z].index = (@ + 1) % R3D_PROF_HISTORY,
                                ![found.z].count = IF @ < R3D_PROF_HISTORY THEN @ + 1 ELSE @]
        /\ profHist' = IF name = <<>> THEN profHist
                       ELSE [profHist EXCEPT ![name[1]] = Append(@, ms)]
        /\ profOut' = [NoProfCall EXCEPT !.fn = "r3d_prof_push_gpu_ms", !.name = name]
        /\ UNCHANGED notProfVars

r3d_prof_get_avg_gpu_ms(name, samples) ==
    LET found == r3d__find_zone(g_zones, name)
    IN  /\ g_zones' = found.zones
        /\ profOut' = [fn |-> "r3d_prof_get_avg_gpu_ms", name |-> name, samples |-> samples,
                       result |-> AvgOfZone(found.zones, found.z, samples)]
        /\ UNCHANGED <<profHist, notProfVars>>

\* last_ms of the zone found or created, 0.0 for no name and no free zone
r3d_prof_get_last_gpu_ms(name) ==
    LET found == r3d__find_zone(g_zones, name)
    IN  /\ g_zones' = found.zones
        /\ profOut' = [fn |-> "r3d_prof_get_last_gpu_ms", name |-> name, samples |-> 0,
                       result |-> IF found.z = 0 THEN ZeroMs
                                  ELSE [sum |-> found.zones[found.z].last_ms,
                                        samples |-> 1]]
        /\ UNCHANGED <<profHist, notProfVars>>

\* the value of the next measurement of a zone: free for the first
\* MaxFreePushes, then 1, 2, 3, 1, ...
NextValues(name) ==
    IF Len(profHist[name]) < MaxFreePushes THEN ProfValues
    ELSE {1 + (Len(profHist[name]) % 3)}

InitProf == R3D_Init({})

NextProf ==
    \/ \E ms \in NextValues("gbuffer") :
            /\ Len(profHist["gbuffer"]) < MaxPushes
            /\ r3d_prof_push_gpu_ms(<<"gbuffer">>, ms)
    \/ \E ms \in NextValues("lights") :
            /\ Len(profHist["lights"]) < MaxFreePushes
            /\ r3d_prof_push_gpu_ms(<<"lights">>, ms)
    \/ r3d_prof_push_gpu_ms(<<>>, 1)
    \/ \E name \in NamePointers, samples \in SampleCounts :
            r3d_prof_get_avg_gpu_ms(name, samples)
    \/ \E name \in NamePointers : r3d_prof_get_last_gpu_ms(name)
    \/ r3d_prof_reset
    \/ r3d_prof_init

SpecProf == InitProf /\ [][NextProf]_vars

(***************************************************************************)
(* Properties of the profiler (SpecProf).                                  *)
(***************************************************************************)
RECURSIVE SumOf(_)
SumOf(seq) == IF seq = <<>> THEN 0 ELSE Head(seq) + SumOf(Tail(seq))

\* the last n values of a sequence
LastValues(seq, n) == SubSeq(seq, Len(seq) - n + 1, Len(seq))

Smaller(a, b) == IF a < b THEN a ELSE b

\* the values pushed to the zone a name points to since the last reset
PushedTo(name) == IF name = <<>> THEN <<>> ELSE profHist[name[1]]

\* the last call returned the mean of the last min(n, count) values pushed
AverageIsMeanOfLast ==
    LET pushed == PushedTo(profOut.name)
        count == Smaller(Len(pushed), R3D_PROF_HISTORY)
        n == Smaller(profOut.samples, count)
    IN  IF count = 0
        THEN profOut.result.sum = 0
        ELSE profOut.samples >= 1 =>
                /\ profOut.result.samples = n
                /\ profOut.result.sum = SumOf(LastValues(pushed, n))

\* C15: r3d_prof_get_avg_gpu_ms(name, n), n >= 1, returns the arithmetic mean
\* of the last min(n, count) values pushed to the zone, count being the number
\* of pushes capped at R3D_PROF_HISTORY, also when the ring has wrapped; it
\* returns 0.0 when the zone does not exist or holds no sample; and
\* r3d_prof_reset() empties the history of every zone and keeps the zone list.
C15_AverageOfLastSamples ==
    [][/\ profOut'.fn = "r3d_prof_get_avg_gpu_ms" => AverageIsMeanOfLast'
       /\ (profOut'.fn = "r3d_prof_reset" /\ profOut.fn # "r3d_prof_reset") =>
            /\ Len(g_zones') = Len(g_zones)
            /\ \A i \in 1..Len(g_zones) :
                    /\ g_zones'[i].name = g_zones[i].name
                    /\ g_zones'[i].count = 0
                    /\ \A k \in 0..(R3D_PROF_HISTORY - 1) : g_zones'[i].hist[k] = 0
      ]_vars

\* the zone received more values than the ring holds, and the mean over the
\* whole ring was read while the write position is inside the ring
C15_Witness ==
    /\ profOut.fn = "r3d_prof_get_avg_gpu_ms"
    /\ profOut.name = <<"gbuffer">>
    /\ profOut.samples = R3D_PROF_HISTORY + 1
    /\ Len(profHist["gbuffer"]) = R3D_PROF_HISTORY + 2
    /\ profHist["gbuffer"][1] = 2
    /\ profOut.result.samples = R3D_PROF_HISTORY
    /\ \E i \in 1..Len(g_zones) : g_zones[i].name = "gbuffer" /\ g_zones[i].index = 2

(***************************************************************************)
(* Specification SpecEffect: frames lit by a registry of 2 to 128 enabled  *)
(* omni lights, the first of which is moved away from the others, without  *)
(* R3D_FLAG_STENCIL_TEST.                                                  *)
(***************************************************************************)
\* the registry after n calls of R3D_CreateLight(type), each light enabled by
\* R3D_SetLightActive
EnabledLights(n, type) ==
    [slots |-> [id \in 1..n |-> [valid |-> TRUE, generation |-> 0,
                                 light |-> [NewLight(type) EXCEPT !.enabled = TRUE]]],
     free |-> <<>>]

\* the numbers of lights: around the length of the effect ID range
EffectBatchSizes ==
    {2, R3D_STENCIL_EFFECT_MASK, R3D_STENCIL_EFFECT_MASK + 1}

InitEffect ==
    \E n \in EffectBatchSizes :
        Started({}, InternalFormats, EnabledLights(n, "R3D_LIGHT_OMNI"))

NextEffect ==
    \/ R3D_Begin(SubmitCamera)
    \/ /\ TotalDraws < MaxSubmits
       /\ \E transform \in {0, MaxCoord} :
            R3D_DrawMesh(<<NullMesh>>, R3D_GetDefaultMaterial, transform)
    \/ \E position \in LightPositions :
            R3D_SetLightPosition([index |-> 1, generation |-> 0], position)
    \/ R3D_End

SpecEffect == InitEffect /\ [][NextEffect]_vars

(***************************************************************************)
(* Properties of the effect IDs (SpecEffect).                              *)
(***************************************************************************)
EffectIds == 1..R3D_STENCIL_EFFECT_MASK

\* the effect IDs of the accumulation draws, in batch order
LitEffectIds(log) == [k \in 1..Len(log) |-> log[k].effectID]

\* C17: in the deferred per-light pass the effect ID of the light at batch
\* index i is never 0 and lies in 1..127; the IDs wrap through the whole range
\* 1..127, so the lights of a batch of up to 127 lights get pairwise distinct
\* IDs, and the stencil-equal test of a light never matches a pixel tagged by
\* another light of that batch.
C17_EffectIdsDistinct ==
    lastCall.fn = "R3D_End" =>
        /\ \A k \in 1..Len(lightLog) : lightLog[k].effectID \in EffectIds
        /\ Len(lightLog) >= R3D_STENCIL_EFFECT_MASK =>
                Elements(LitEffectIds(lightLog)) = EffectIds
        /\ Len(lightLog) <= R3D_STENCIL_EFFECT_MASK =>
                /\ \A j, k \in 1..Len(lightLog) :
                        j # k => lightLog[j].effectID # lightLog[k].effectID
                /\ \A k \in 1..Len(lightLog) :
                        lightLog[k].type # "R3D_LIGHT_DIR" =>
                            lightLog[k].shaded \subseteq lightLog[k].volume

(***************************************************************************)
(* Specification SpecForward: frames of transparent mesh, sprite and        *)
(* instanced mesh draws under 1 to MaxForwardLights enabled directional    *)
(* and omni lights, placed at the draws or away from them; all the lights  *)
(* are inside the view volume.                                             *)
(***************************************************************************)
MaxForwardLights == 3

\* the registry after R3D_CreateLight, R3D_SetLightActive and
\* R3D_SetLightPosition for each light of the sequence
PlacedLights(lights) ==
    [slots |-> [id \in 1..Len(lights) |->
                    [valid |-> TRUE, generation |-> 0,
                     light |-> [NewLight(lights[id].type) EXCEPT
                                    !.enabled = TRUE, !.position = lights[id].position]]],
     free |-> <<>>]

ForwardLights ==
    UNION {[1..n -> [type : {"R3D_LIGHT_DIR", "R3D_LIGHT_OMNI"}, position : LightPositions]] :
            n \in 1..MaxForwardLights}

AlphaMaterial == [R3D_GetDefaultMaterial EXCEPT !.blendMode = "R3D_BLEND_ALPHA"]

InitForward == \E lights \in ForwardLights : Started({}, InternalFormats, PlacedLights(lights))

NextForward ==
    \/ R3D_Begin(SubmitCamera)
    \/ /\ TotalDraws < MaxSubmits
       /\ R3D_DrawMesh(<<NullMesh>>, AlphaMaterial, 0)
    \/ /\ TotalDraws < MaxSubmits
       /\ R3D_DrawSpritePro(<<[material |-> AlphaMaterial]>>, 0, 1)
    \/ /\ TotalDraws < MaxSubmits
       /\ R3D_DrawMeshInstancedPro(<<NullMesh>>, AlphaMaterial, <<0, 0>>, 0,
                                   <<"instanceTransforms">>, 1)
    \/ R3D_End

SpecForward == InitForward /\ [][NextForward]_vars

(***************************************************************************)
(* Properties of the forward light filter (SpecForward).                   *)
(***************************************************************************)
\* the forward draws of the last R3D_End, in the order they were drawn
ForwardCalls == aDrawForwardInst \o aDrawForward

\* the slots the filter uploaded a light to
SlotsSent(e) == {e.sent[j].slot : j \in 1..Len(e.sent)}

\* C18: after the light filter of a forward draw the uniform slots marked
\* enabled are exactly the slots that received a light included for the draw;
\* their number is the number of included lights, at most the cap; every slot
\* index written is below the cap; every other slot up to the cap is disabled.
C18_EnabledSlotsAreTheIncludedLights ==
    lastCall.fn = "R3D_End" =>
        \A k \in 1..Len(forwardLog) :
            /\ forwardLog[k].enabled = SlotsSent(forwardLog[k])
            /\ Cardinality(forwardLog[k].enabled) = Len(forwardLog[k].sent)
            /\ Len(forwardLog[k].sent) <= R3D_SHADER_FORWARD_NUM_LIGHTS
            /\ SlotsSent(forwardLog[k]) \subseteq Slots
            /\ \A i \in Slots \ SlotsSent(forwardLog[k]) : i \notin forwardLog[k].enabled

\* the batch indices of the lights the filter included for a draw
IndicesSent(e) == {e.sent[j].index : j \in 1..Len(e.sent)}

\* the light's box intersects the mesh's box, or holds a corner of the quad
Touches(call, light) ==
    IF call.geometryType = "R3D_DRAWCALL_GEOMETRY_MODEL"
    THEN CheckCollisionBoxes(light.aabb, MeshAabb(call))
    ELSE \E j \in 1..Len(call.quad) :
            /\ call.quad[j] >= Quarters(light.aabb[1])
            /\ call.quad[j] <= Quarters(light.aabb[2])

\* C19: for a mesh or sprite draw of the forward colour pass the filter
\* includes a light of the batch that is not directional exactly when the
\* light's box intersects the box of the draw's mesh or, for a sprite, holds
\* at least one corner of the quad, and always includes a directional light;
\* stated for the batch entries the loop went through before the cap stopped it.
C19_FilterIncludesTouchingLights ==
    lastCall.fn = "R3D_End" =>
        \A k \in 1..Len(forwardLog) :
            ~forwardLog[k].inst =>
                \A i \in 0..(forwardLog[k].examined - 1) :
                    i \in IndicesSent(forwardLog[k]) <=>
                        \/ r3d_registry_get(rLights, aLightBatch[i + 1].data).type = "R3D_LIGHT_DIR"
                        \/ Touches(ForwardCalls[k], aLightBatch[i + 1])

(***************************************************************************)
(* Specification SpecMesh: frames of one transparent mesh draw under an    *)
(* omni light; the caller rebuilds the vertices of its mesh and has the    *)
(* bounding box updated between any two calls, also between the submission *)
(* and R3D_End and between two R3D_End.                                    *)
(***************************************************************************)
\* mesh->vertices: NULL, or the positions of the vertices the caller has
\* given the mesh
VertexArrays == {NULL, <<0>>, <<MaxCoord, MaxCoord - 1>>, <<MaxCoord>>}

RECURSIVE Vector3Min(_)
\* minVertex after the loop over the vertices
Vector3Min(vertices) ==
    IF Len(vertices) = 1 THEN vertices[1]
    ELSE LET m == Vector3Min(Tail(vertices))
         IN  IF vertices[1] < m THEN vertices[1] ELSE m

RECURSIVE Vector3Max(_)
\* maxVertex after the loop over the vertices
Vector3Max(vertices) ==
    IF Len(vertices) = 1 THEN vertices[1]
    ELSE LET m == Vector3Max(Tail(vertices))
         IN  IF vertices[1] > m THEN vertices[1] ELSE m

\* R3D_UpdateMeshBoundingBox (r3d_model.c): the box of the mesh becomes the
\* box of its vertices; a draw call that was submitted with the mesh points
\* to it. vertices is mesh->vertices
R3D_UpdateMeshBoundingBox(mesh, vertices) ==
    /\ meshes' = IF mesh = NULL \/ vertices = NULL THEN meshes
                  ELSE [meshes EXCEPT ![mesh[1]].aabb =
                            <<Vector3Min(vertices), Vector3Max(vertices)>>]
    /\ lastCall' = [Call("R3D_UpdateMeshBoundingBox") EXCEPT
                        !.ok = ~(mesh = NULL \/ vertices = NULL)]
    /\ UNCHANGED <<endVars, userMaterial, support, texLog, g_zones, profHist, profOut>>
    /\ UNCHANGED <<flags, setupVars, drawVars, frameVars, lightVars>>

InitMesh ==
    \E position \in LightPositions :
        Started({}, InternalFormats,
                PlacedLights(<<[type |-> "R3D_LIGHT_OMNI", position |-> position]>>))

NextMesh ==
    \/ R3D_Begin(SubmitCamera)
    \/ /\ TotalDraws < MaxSubmits
       /\ R3D_DrawMesh(<<NullMesh>>, AlphaMaterial, 0)
    \/ \E mesh \in {NULL, <<NullMesh>>}, vertices \in VertexArrays :
            R3D_UpdateMeshBoundingBox(mesh, vertices)
    \/ R3D_End

SpecMesh == InitMesh /\ [][NextMesh]_vars

\* a queued draw call points to the mesh (SpecMesh): R3D_End culls a mesh
\* draw and filters its lights with the box the mesh has when R3D_End runs
MeshBoxReadAtEnd ==
    lastCall.fn = "R3D_End" =>
        /\ \A k \in 1..Len(aDrawForward) :
                r3d_drawcall_geometry_is_visible(aDrawForward[k], frustum)
        /\ \A k \in 1..Len(forwardLog) :
                (0 \in IndicesSent(forwardLog[k]))
                    <=> CheckCollisionBoxes(aLightBatch[1].aabb, MeshAabb(aDrawForward[k]))

\* the second R3D_End culled the draw call the first had kept, the box
\* having been updated between the two
MeshCulledAfterUpdate ==
    /\ lastCall.fn = "R3D_End"
    /\ lastCall.pre[3] # <<>>
    /\ aDrawForward = <<>>
    /\ meshes[NullMesh].aabb = <<MaxCoord, MaxCoord>>

(***************************************************************************)
(* Specification SpecBatch: up to MaxBatchLights directional and omni      *)
(* lights are created, enabled, disabled, moved and destroyed between      *)
(* frames whose camera looks either way.                                   *)
(***************************************************************************)
InitBatch == R3D_Init({})

\* the handles the caller holds: those of the first light of each slot
BatchHandles == {h \in Handles : h.generation = 0}

NextBatch ==
    \/ \E camera \in LightCameras : R3D_Begin(camera)
    \/ \E type \in {"R3D_LIGHT_DIR", "R3D_LIGHT_OMNI"} : R3D_CreateLight(type)
    \/ \E h \in BatchHandles : R3D_DestroyLight(h)
    \/ \E h \in BatchHandles, active \in BOOLEAN : R3D_SetLightActive(h, active)
    \/ \E h \in BatchHandles : R3D_SetLightPosition(h, MaxCoord)
    \/ R3D_End

SpecBatch == InitBatch /\ [][NextBatch]_vars

(***************************************************************************)
(* Properties of the light batch (SpecBatch).                              *)
(***************************************************************************)
\* the registry ids of the lights R3D_End has to batch
VisibleLights(reg, shape) ==
    {id \in 1..Len(reg.slots) :
        /\ reg.slots[id].valid
        /\ reg.slots[id].light.enabled
        /\ \/ reg.slots[id].light.type = "R3D_LIGHT_DIR"
           \/ CheckCollisionBoxes(shape, <<reg.slots[id].light.position - LightRange,
                                           reg.slots[id].light.position + LightRange>>)}

\* C20: after the batching step of R3D_End the batch holds exactly the lights
\* of the registry that are valid, enabled and directional or with a box that
\* intersects the view volume, each exactly once; nothing of the previous
\* frame's batch is carried over, so a light disabled or destroyed between two
\* frames is not in the second frame's batch.
C20_BatchIsTheVisibleLights ==
    lastCall.fn = "R3D_End" =>
        /\ Elements(BatchLights(aLightBatch)) = VisibleLights(rLights, frustum)
        /\ Len(aLightBatch) = Cardinality(VisibleLights(rLights, frustum))
        /\ \A k \in 1..Len(aLightBatch) :
                aLightBatch[k].aabb = r3d_light_get_bounding_box(rLights.slots[aLightBatch[k].data].light)

\* two lights were created; the first was destroyed, the second is enabled:
\* the frame's batch is the second light alone
C20_Witness ==
    /\ lastCall.fn = "R3D_End"
    /\ Len(rLights.slots) = 2
    /\ ~rLights.slots[1].valid
    /\ [index |-> 1, generation |-> 0] \in destroyed
    /\ rLights.slots[2].valid
    /\ BatchLights(aLightBatch) = <<2>>

(***************************************************************************)
(* Specification SpecShadow: mesh and sprite draws, shadow casting or not, *)
(* inside and outside the view volume, with directional and omni lights    *)
(* whose shadow maps R3D_End renders, with and without the depth pre-pass. *)
(***************************************************************************)
\* a material that casts no shadow
ShadowlessMaterial ==
    [AlphaMaterial EXCEPT !.shadowCastMode = "R3D_SHADOW_CAST_DISABLED"]

ShadowMaterials == {R3D_GetDefaultMaterial, AlphaMaterial, ShadowlessMaterial}

InitShadow == R3D_Init({})

NextShadow ==
    \/ R3D_Begin(SubmitCamera)
    \/ \E m \in ShadowMaterials, transform \in {0, MaxCoord} :
          /\ TotalDraws < MaxSubmits
          /\ R3D_DrawMesh(<<NullMesh>>, m, transform)
    \/ /\ TotalDraws < MaxSubmits
       /\ R3D_DrawSpritePro(<<[material |-> R3D_GetDefaultMaterial]>>, 0, 1)
    \/ /\ TotalDraws < MaxSubmits
       /\ R3D_DrawMeshInstancedPro(<<NullMesh>>, R3D_GetDefaultMaterial, NullAabb, 0,
                                   <<"instanceTransforms">>, 1)
    \/ \E type \in {"R3D_LIGHT_DIR", "R3D_LIGHT_OMNI"} :
          /\ r3d_registry_next_id(rLights) <= MaxLights
          /\ R3D_CreateLight(type)
    \/ R3D_SetLightActive(MaterialLight, TRUE)
    \/ R3D_EnableShadow(MaterialLight)
    \/ R3D_SetState({"R3D_FLAG_DEPTH_PREPASS"})
    \/ R3D_ClearState({"R3D_FLAG_DEPTH_PREPASS"})
    \/ R3D_End

SpecShadow == InitShadow /\ [][NextShadow]_vars

(***************************************************************************)
(* Properties of the shadow pass (SpecShadow).                             *)
(***************************************************************************)
\* the queued draw calls whose material casts shadows, whatever the geometry
CastingCalls(calls) ==
    LET Casts(call) == call.material.shadowCastMode # "R3D_SHADOW_CAST_DISABLED"
    IN  SelectSeq(calls, Casts)

\* the materials of the shadow-casting draw calls of the four arrays
CastingMaterials(deferred, deferredInst, forward, forwardInst) ==
    MaterialsOf(CastingCalls(deferredInst) \o CastingCalls(forwardInst)
                \o CastingCalls(deferred) \o CastingCalls(forward))

\* one copy of seq per shadow map of the lights rendered
PerShadowMap(reg, rendered, seq) ==
    Concat([r \in 1..Len(rendered) |->
                Concat([face \in 1..ShadowFaces(r3d_registry_get(reg, rendered[r])) |-> seq])])

\* C21: in an R3D_End, every shadow map rendered (one per directional light,
\* six per omni light) is rasterized from exactly the draw calls of the four
\* arrays as submitted, culled or not, whose material's shadow-cast mode is
\* not Disabled, mesh and sprite geometry alike.
C21_ShadowMapsRasterizeAllCasters ==
    [][(lastCall'.fn = "R3D_End" /\ lastCall' # lastCall) =>
          PassMaterials(rasterLog', "r3d_pass_shadow_maps")
            = PerShadowMap(rLights', shadowLog',
                           CastingMaterials(aDrawDeferred, aDrawDeferredInst,
                                            aDrawForward, aDrawForwardInst))]_vars


\* the depth rasterizations of the last R3D_End
DepthRasterizations ==
    LET Depth(e) == e.pass \in {"r3d_pass_shadow_maps", "r3d_pass_scene_forward_depth_prepass"}
    IN  SelectSeq(rasterLog, Depth)

\* C22: r3d_drawcall_apply_shadow_cast_mode is never reached with the mode
\* Disabled: no depth rasterization ends in its assertion, every one issued by
\* the shadow pass is of a draw whose mode is not Disabled, and the depth
\* pre-pass applies the cull mode of the material, whatever its shadow-cast
\* mode.
C22_ShadowCastSwitchNeverDisabled ==
    \A i \in 1..Len(DepthRasterizations) :
        LET e == DepthRasterizations[i]
        IN  /\ e.faces # "assert"
            /\ e.pass = "r3d_pass_shadow_maps" =>
                 /\ e.material.shadowCastMode # "R3D_SHADOW_CAST_DISABLED"
                 /\ e.faces = r3d_drawcall_apply_shadow_cast_mode(e.material.shadowCastMode)
            /\ e.pass = "r3d_pass_scene_forward_depth_prepass" =>
                 e.faces = r3d_drawcall_apply_cull_mode(e.material.cullMode)

\* a frame with a shadow-casting light and the depth pre-pass: a mesh whose
\* material casts no shadow went through the pre-pass, another mesh through
\* the shadow pass
C22_Witness ==
    /\ lastCall.fn = "R3D_End"
    /\ \E i \in 1..Len(DepthRasterizations) :
          /\ DepthRasterizations[i].pass = "r3d_pass_scene_forward_depth_prepass"
          /\ DepthRasterizations[i].material = ShadowlessMaterial
    /\ \E i \in 1..Len(DepthRasterizations) :
          DepthRasterizations[i].pass = "r3d_pass_shadow_maps"


\* the passes R3D_End runs only for deferred draws
DeferredPasses ==
    {"r3d_pass_gbuffer", "r3d_pass_deferred_ambient", "r3d_pass_deferred_lights",
     "r3d_pass_scene_deferred"}

\* the passes R3D_End runs in every frame
FramePasses ==
    {"r3d_pass_scene_background", "r3d_pass_post_init", "r3d_pass_post_adjustment",
     "r3d_pass_final_blit"}

\* how many times the last R3D_End ran a pass when it runs it iff cond
RanOnceIff(name, cond) == Occurrences(passLog, name) = IF cond THEN 1 ELSE 0

\* C23: in every R3D_End the G-buffer pass, the deferred ambient pass, the
\* per-light accumulation and the deferred composite run together, once each,
\* iff a deferred or deferred-instanced draw survived culling; when none
\* survived the depth and stencil buffers are cleared once in place of the
\* G-buffer pass, and the background pass, the post chain and the final blit
\* run as in every frame and the forward passes run as they do whenever a
\* forward draw survived.
C23_DeferredPassesAllOrNone ==
    lastCall.fn = "R3D_End" =>
        LET survived == Len(aDrawDeferred) + Len(aDrawDeferredInst) > 0
            forward == Len(aDrawForward) + Len(aDrawForwardInst) > 0
        IN  /\ \A name \in DeferredPasses : RanOnceIff(name, survived)
            /\ RanOnceIff("r3d_clear_gbuffer", ~survived)
            /\ \A name \in FramePasses : RanOnceIff(name, TRUE)
            /\ RanOnceIff("r3d_pass_scene_forward", forward)
            /\ RanOnceIff("r3d_pass_scene_forward_depth_prepass",
                          forward /\ "R3D_FLAG_DEPTH_PREPASS" \in flags)

\* a frame whose only deferred draw was culled and whose forward draw was
\* not: the buffers were cleared and the forward pass ran
C23_Witness ==
    /\ lastCall.fn = "R3D_End"
    /\ Len(lastCall.pre[1]) = 1
    /\ Len(aDrawDeferred) + Len(aDrawDeferredInst) = 0
    /\ Len(aDrawForward) = 1
    /\ Occurrences(passLog, "r3d_clear_gbuffer") = 1
    /\ Occurrences(passLog, "r3d_pass_scene_forward") = 1


(***************************************************************************)
(* Specification SpecPingPong: frames with a deferred draw under every     *)
(* choice of the FXAA flag, of the SSAO setting and blur iteration count   *)
(* and of the bloom, fog and tonemap settings.                             *)
(***************************************************************************)
MaxBlur == 2

BlurCounts == 0..MaxBlur

InitPingPong == \E f \in SUBSET {"R3D_FLAG_FXAA"} : R3D_Init(f)

NextPingPong ==
    \/ R3D_Begin(SubmitCamera)
    \/ /\ TotalDraws < 1
       /\ R3D_DrawMesh(<<NullMesh>>, R3D_GetDefaultMaterial, 0)
    \/ Configuring /\ \E enabled \in BOOLEAN : R3D_SetSSAO(enabled)
    \/ Configuring /\ \E value \in BlurCounts : R3D_SetSSAOIterations(value)
    \/ Configuring /\ \E mode \in BloomModes : R3D_SetBloomMode(mode)
    \/ Configuring /\ \E mode \in FogModes : R3D_SetFogMode(mode)
    \/ Configuring /\ \E mode \in TonemapModes : R3D_SetTonemapMode(mode)
    \/ R3D_End

SpecPingPong == InitPingPong /\ [][NextPingPong]_vars

(***************************************************************************)
(* Properties of the two ping-pong chains (SpecPingPong).                  *)
(***************************************************************************)
\* the draws of the last R3D_End that sample or write the post buffer
PostChain ==
    LET OfPost(e) == e.pass \in SwappingPasses \cup {"r3d_pass_final_blit"}
    IN  SelectSeq(ioLog, OfPost)

\* the draws of the last R3D_End that sample or write the SSAO buffer
SsaoChain ==
    LET OfSsao(e) == e.pass \in {"screen.ssao", "generate.gaussianBlurDualPass",
                                 "r3d_pass_deferred_ambient"}
    IN  SelectSeq(ioLog, OfSsao)

\* every draw after the first samples what the draw before it wrote
ReadsPrevious(chain) == \A k \in 2..Len(chain) : chain[k].read = chain[k - 1].write

\* no draw samples the texture it writes
WritesOther(chain) == \A k \in 1..Len(chain) : chain[k].read # chain[k].write

\* C24: in both ping-pong chains every pass writes the texture it does not
\* sample and samples the texture written by the pass before it: in the post
\* chain the first pass is the copy of the scene colour, each stage that runs
\* samples the output of the stage that ran before it and the final blit
\* reads the output of the last one; in the SSAO chain the raw occlusion is
\* followed by ssaoIterations blur draws, each sampling the previous result,
\* and the ambient pass samples the texture written last.
C24_PingPongReadsPreviousWrite ==
    lastCall.fn = "R3D_End" =>
        /\ PostChain[1].pass = "r3d_pass_post_init"
        /\ PostChain[1].read = "scene.color"
        /\ PostChain[Len(PostChain)].pass = "r3d_pass_final_blit"
        /\ Len(PostChain) = SwapCount(passLog) + 1
        /\ ReadsPrevious(PostChain)
        /\ WritesOther(PostChain)
        /\ env.ssaoEnabled =>
             /\ SsaoChain[1].pass = "screen.ssao"
             /\ Occurrences([k \in 1..Len(SsaoChain) |-> SsaoChain[k].pass],
                            "generate.gaussianBlurDualPass") = env.ssaoIterations
             /\ ReadsPrevious(SsaoChain)
             /\ WritesOther(SsaoChain)
             /\ Len(SsaoChain) = 1 + env.ssaoIterations + Occurrences(passLog, "r3d_pass_deferred_ambient")

\* a frame with SSAO, two blur iterations and the ambient pass, and with
\* bloom and fog in the post chain
C24_Witness ==
    /\ lastCall.fn = "R3D_End"
    /\ env.ssaoEnabled
    /\ env.ssaoIterations = 2
    /\ Len(SsaoChain) = 4
    /\ SsaoChain[4].pass = "r3d_pass_deferred_ambient"
    /\ Occurrences(passLog, "r3d_pass_post_bloom") = 1
    /\ Occurrences(passLog, "r3d_pass_post_fog") = 1
    /\ Len(PostChain) = 5


(***************************************************************************)
(* Properties of the post chain's stages (SpecPost).                       *)
(***************************************************************************)
PostStageNames ==
    {"r3d_pass_post_bloom", "r3d_pass_post_fog", "r3d_pass_post_tonemap",
     "r3d_pass_post_adjustment", "r3d_pass_post_fxaa"}

\* the stages of the post chain the last R3D_End ran, in order
PostStagesRun ==
    LET Stage(name) == name \in PostStageNames
    IN  SelectSeq(passLog, Stage)

\* <<name>> if cond, else nothing
StageIf(cond, name) == IF cond THEN <<name>> ELSE <<>>

\* C25: in every R3D_End the post chain runs bloom, fog, tonemap, colour
\* adjustment and FXAA in this order, bloom iff the bloom mode is not
\* Disabled, fog iff the fog mode is not Disabled, tonemap iff the tonemap
\* mode is not Linear or the exposure is not 1.0, FXAA iff R3D_FLAG_FXAA is
\* set, and colour adjustment in every frame.
C25_PostStagesInOrder ==
    lastCall.fn = "R3D_End" =>
        PostStagesRun
          = StageIf(env.bloomMode # "R3D_BLOOM_DISABLED", "r3d_pass_post_bloom")
            \o StageIf(env.fogMode # "R3D_FOG_DISABLED", "r3d_pass_post_fog")
            \o StageIf(env.tonemapMode # "R3D_TONEMAP_LINEAR" \/ env.tonemapExposure # 1,
                       "r3d_pass_post_tonemap")
            \o <<"r3d_pass_post_adjustment">>
            \o StageIf("R3D_FLAG_FXAA" \in flags, "r3d_pass_post_fxaa")

\* a frame with bloom disabled, fog enabled, the linear tonemap at an
\* exposure of 2 and FXAA: fog, tonemap, adjustment and FXAA ran
C25_Witness ==
    /\ lastCall.fn = "R3D_End"
    /\ env.bloomMode = "R3D_BLOOM_DISABLED"
    /\ env.tonemapMode = "R3D_TONEMAP_LINEAR"
    /\ env.tonemapExposure = 2
    /\ PostStagesRun = <<"r3d_pass_post_fog", "r3d_pass_post_tonemap",
                         "r3d_pass_post_adjustment", "r3d_pass_post_fxaa">>


(***************************************************************************)
(* Specification SpecPrepass: forward mesh, sprite and instanced draws at  *)
(* several distances from the camera, with and without the depth pre-pass  *)
(* and the transparent sorting.                                            *)
(***************************************************************************)
PrepassInitWords == SUBSET {"R3D_FLAG_DEPTH_PREPASS", "R3D_FLAG_TRANSPARENT_SORTING"}

\* two alpha-blended materials that differ in their cull mode
PrepassMaterials == {AlphaMaterial, [AlphaMaterial EXCEPT !.cullMode = "R3D_CULL_NONE"]}

InitPrepass == \E f \in PrepassInitWords : R3D_Init(f)

NextPrepass ==
    \/ R3D_Begin(SubmitCamera)
    \/ \E m \in PrepassMaterials, transform \in NearPlane..FarPlane :
          /\ TotalDraws < MaxDraws
          /\ R3D_DrawMesh(<<NullMesh>>, m, transform)
    \/ /\ TotalDraws < MaxDraws
       /\ R3D_DrawSpritePro(<<[material |-> AlphaMaterial]>>, 0, 1)
    \/ /\ TotalDraws < MaxDraws
       /\ R3D_DrawMeshInstancedPro(<<NullMesh>>, AlphaMaterial, NullAabb, 0,
                                   <<"instanceTransforms">>, 1)
    \/ R3D_End

SpecPrepass == InitPrepass /\ [][NextPrepass]_vars

(***************************************************************************)
(* Properties of the forward depth pre-pass (SpecPrepass).                 *)
(***************************************************************************)
\* the draw calls of mesh geometry
MeshCalls(calls) ==
    LET IsMesh(call) == call.geometryType = "R3D_DRAWCALL_GEOMETRY_MODEL"
    IN  SelectSeq(calls, IsMesh)

\* the draw calls are ordered from the farthest to the nearest
BackToFront(calls) ==
    \A i, j \in 1..Len(calls) :
        i < j => Vector3DistanceSqr(viewPos, calls[i].transform)
                   >= Vector3DistanceSqr(viewPos, calls[j].transform)

\* the pre-pass ran in the last R3D_End
PrepassRan == lastCall.fn = "R3D_End" /\ "r3d_pass_scene_forward_depth_prepass" \in Elements(passLog)

\* C26 as stated: the depth pre-pass rasterizes the instanced forward meshes
\* and then the non-instanced ones in the order of the colour pass.
C26_PrepassInColourPassOrder ==
    PrepassRan =>
        PassMaterials(rasterLog, "r3d_pass_scene_forward_depth_prepass")
          = MaterialsOf(MeshCalls(aDrawForwardInst) \o MeshCalls(aDrawForward))

\* C26, amended: the depth pre-pass rasterizes the instanced forward meshes
\* first and then the non-instanced ones in the reverse of the array order,
\* which is the reverse of the order of the colour pass; with transparent
\* sorting the array is back-to-front, so the pre-pass draws front-to-back.
C26_PrepassInReverseOrder ==
    PrepassRan =>
        /\ PassMaterials(rasterLog, "r3d_pass_scene_forward_depth_prepass")
             = MaterialsOf(MeshCalls(aDrawForwardInst) \o Reverse(MeshCalls(aDrawForward)))
        /\ PassMaterials(rasterLog, "r3d_pass_scene_forward")
             = MaterialsOf(aDrawForwardInst \o aDrawForward)
        /\ "R3D_FLAG_TRANSPARENT_SORTING" \in flags => BackToFront(aDrawForward)

\* a sorted frame with two forward meshes of different materials at
\* different distances: the pre-pass drew the nearer one first, the colour
\* pass the farther one
C26_Witness ==
    /\ PrepassRan
    /\ "R3D_FLAG_TRANSPARENT_SORTING" \in flags
    /\ Len(aDrawForward) = 2
    /\ aDrawForward[1].transform > aDrawForward[2].transform
    /\ aDrawForward[1].material # aDrawForward[2].material
    /\ PassMaterials(rasterLog, "r3d_pass_scene_forward_depth_prepass")
         = <<aDrawForward[2].material, aDrawForward[1].material>>


\* the materials the pre-pass and the colour pass of the last R3D_End drew with
PrepassOrColourMaterials ==
    Elements(PassMaterials(rasterLog, "r3d_pass_scene_forward_depth_prepass"))
        \cup Elements(PassMaterials(rasterLog, "r3d_pass_scene_forward"))

\* C27: with R3D_FLAG_DEPTH_PREPASS set, the draws the depth pre-pass
\* rasterizes are the draws the colour pass rasterizes under the depth-equal
\* test, mesh and sprite, instanced or not: every forward draw of the colour
\* pass had its depth written by the pre-pass of the same frame.
C27_PrepassCoversColourPass ==
    PrepassRan =>
        \A m \in PrepassOrColourMaterials :
            Occurrences(PassMaterials(rasterLog, "r3d_pass_scene_forward_depth_prepass"), m)
              = Occurrences(PassMaterials(rasterLog, "r3d_pass_scene_forward"), m)



(***************************************************************************)
(* SpecNullMaterial: mesh submissions whose material pointer may be NULL.  *)
(* A process that faulted runs no further call.                            *)
(***************************************************************************)
Running == ~lastCall.fault

\* the material pointers a caller passes: none, or a translucent material
MaterialPointers == {NULL, AlphaMaterial}

\* a particle system with one live particle
OneParticle == [count |-> 1, aabb |-> NullAabb]

InitNullMaterial == R3D_Init({})

NextNullMaterial ==
    \/ Running /\ R3D_Begin(SubmitCamera)
    \/ \E material \in MaterialPointers :
          /\ Running /\ TotalDraws < MaxDraws
          /\ R3D_DrawMesh(<<NullMesh>>, material, 0)
    \/ \E material \in MaterialPointers :
          /\ Running /\ TotalDraws < MaxDraws
          /\ R3D_DrawMeshInstancedPro(<<NullMesh>>, material, NullAabb, 0,
                                      <<"instanceTransforms">>, 1)
    \/ \E material \in MaterialPointers :
          /\ Running /\ TotalDraws < MaxDraws
          /\ R3D_DrawParticleSystemEx(<<OneParticle>>, <<NullMesh>>, material, 0)
    \/ Running /\ R3D_End

SpecNullMaterial == InitNullMaterial /\ [][NextNullMaterial]_vars

\* the submissions of one mesh with a material pointer
MeshSubmissions == {"R3D_DrawMesh", "R3D_DrawMeshInstancedPro", "R3D_DrawParticleSystemEx"}

\* the step is an accepted mesh submission whose material pointer was NULL
NullMaterialSubmitted ==
    /\ lastCall'.fn \in MeshSubmissions
    /\ lastCall'.ok
    /\ "material" \in lastCall'.arg

\* the deferred array named grew by one draw call that carries the default material
QueuedDefault(before, after) ==
    /\ Len(after) = Len(before) + 1
    /\ SubSeq(after, 1, Len(before)) = before
    /\ after[Len(after)].material = R3D_GetDefaultMaterial

\* C28: a mesh submission with a valid mesh and a NULL material queues exactly
\* one draw call that carries the default material in the deferred array of
\* its kind, and no read through the null pointer faults
C28_NullMaterialQueuesDefault ==
    [][NullMaterialSubmitted =>
          /\ ~lastCall'.fault
          /\ UNCHANGED <<aDrawForward, aDrawForwardInst>>
          /\ IF lastCall'.fn = "R3D_DrawMesh"
             THEN QueuedDefault(aDrawDeferred, aDrawDeferred')
                  /\ UNCHANGED aDrawDeferredInst
             ELSE QueuedDefault(aDrawDeferredInst, aDrawDeferredInst')
                  /\ UNCHANGED aDrawDeferred]_vars

(***************************************************************************)
(* R3D_Init with its resolution, R3D_UpdateResolution, R3D_SetRenderTarget.*)
(***************************************************************************)
R3D_InitAt(resWidth, resHeight, f) ==
    StartedAt(f, InternalFormats, r3d_registry_create, resWidth, resHeight)

\* r3d_framebuffers_unload then r3d_framebuffers_load: the SSAO pair is
\* loaded when SSAO is enabled and the mip chain when bloom is
R3D_UpdateResolution(width, height) ==
    /\ IF width <= 0 \/ height <= 0
       THEN /\ UNCHANGED <<resolution, post, pingPongSSAO, mipChainBloom>>
            /\ lastCall' = [Call("R3D_UpdateResolution") EXCEPT !.ok = FALSE]
       ELSE IF width = resolution.width /\ height = resolution.height
       THEN /\ UNCHANGED <<resolution, post, pingPongSSAO, mipChainBloom>>
            /\ lastCall' = Call("R3D_UpdateResolution")
       ELSE /\ resolution' = [width |-> width, height |-> height]
            /\ post' = r3d_framebuffer_load_pingpong
            /\ pingPongSSAO' = IF env.ssaoEnabled
                               THEN r3d_framebuffer_load_pingpong_ssao
                               ELSE NoPingPong
            /\ IF env.bloomMode # "R3D_BLOOM_DISABLED"
               THEN mipChainBloom' \in r3d_framebuffer_load_mipchain_bloom(width, height)
               ELSE mipChainBloom' = NoMipChain
            /\ lastCall' = [Call("R3D_UpdateResolution") EXCEPT
                                !.fault = (mipChainBloom'.attached = "SIGSEGV")]
    /\ UNCHANGED <<endVars, auxVars, flags, initFlags, customTarget, drawVars,
                   viewPos, frustum, env, passLog, lightVars>>

\* target is NULL or <<t>>, a pointer to the RenderTexture t
R3D_SetRenderTarget(target) ==
    /\ customTarget' = IF target = NULL THEN NoTarget ELSE target[1]
    /\ lastCall' = [Call("R3D_SetRenderTarget") EXCEPT !.arg = NullArgs([target |-> target], <<>>)]
    /\ UNCHANGED <<endVars, auxVars, flags, initFlags, resolution, mipChainBloom,
                   drawVars, frameVars, lightVars>>

\* r3d_framebuffers_unload and the destruction of the four draw-call
\* arrays, of the light registry and of the light batch
R3D_Close ==
    /\ post' = NoPingPong
    /\ pingPongSSAO' = NoPingPong
    /\ mipChainBloom' = NoMipChain
    /\ aDrawForward' = r3d_array_destroy
    /\ aDrawDeferred' = r3d_array_destroy
    /\ aDrawForwardInst' = r3d_array_destroy
    /\ aDrawDeferredInst' = r3d_array_destroy
    /\ rLights' = r3d_registry_destroy
    /\ aLightBatch' = r3d_array_destroy
    /\ lastCall' = Call("R3D_Close")
    /\ UNCHANGED <<endVars, auxVars, flags, initFlags, resolution, customTarget,
                   viewPos, frustum, env, passLog, shadowLog, destroyed>>

\* the renderer was not closed
Open == lastCall.fn # "R3D_Close"

(***************************************************************************)
(* SpecBlit: frames at every resolution and destination size of the        *)
(* bounds, with and without R3D_FLAG_ASPECT_KEEP.                          *)
(***************************************************************************)
MaxSide == 4

\* a resolution of 19x14 has a ratio that float rounds below 19/14 ...
RatioSides == {14, 19}

\* ... and a destination side of 21 puts 21 * 19 / 14 on the half, 28.5
TargetSides == {16, 21, 100}

\* the sides of a resolution
Sides == 1..MaxSide \cup RatioSides

\* the render textures a caller passes
RenderTextures == {[id |-> 1, texture |-> [width |-> w, height |-> h]] : w, h \in 1..MaxSide \cup TargetSides}

InitBlit == \E w, h \in Sides, f \in SUBSET {"R3D_FLAG_ASPECT_KEEP"} : R3D_InitAt(w, h, f)

NextBlit ==
    \/ Open /\ R3D_Begin(SubmitCamera)
    \/ \E target \in {NULL} \cup {<<t>> : t \in RenderTextures} :
          Open /\ Configuring /\ R3D_SetRenderTarget(target)
    \/ \E w, h \in Sides \cup {0} : Open /\ Configuring /\ R3D_UpdateResolution(w, h)
    \/ Open /\ Configuring /\ R3D_SetState({"R3D_FLAG_ASPECT_KEEP"})
    \/ Open /\ Configuring /\ R3D_ClearState({"R3D_FLAG_ASPECT_KEEP"})
    \/ Open /\ R3D_End
    \/ Open /\ R3D_Close

SpecBlit == InitBlit /\ [][NextBlit]_vars

\* the rectangle lies inside the destination
InsideDestination(r, dst) ==
    /\ r.x >= 0 /\ r.y >= 0
    /\ r.x + r.w <= dst.width
    /\ r.y + r.h <= dst.height

\* the rectangle spans one dimension of the destination and is centred in
\* the other, up to the odd pixel
SpansAndCentred(r, dst) ==
    \/ r.w = dst.width /\ r.x = 0 /\ dst.height - r.h - 2 * r.y \in {0, 1}
    \/ r.h = dst.height /\ r.y = 0 /\ dst.width - r.w - 2 * r.x \in {0, 1}

\* the rectangle has the width/height ratio of the source up to the rounding
\* of the computed side to the nearest pixel
KeepsRatio(r, res) ==
    \/ 2 * r.w * res.height - res.height <= 2 * r.h * res.width
       /\ 2 * r.h * res.width <= 2 * r.w * res.height + res.height
    \/ 2 * r.h * res.width - res.width <= 2 * r.w * res.height
       /\ 2 * r.w * res.height <= 2 * r.h * res.width + res.width

\* C29: with R3D_FLAG_ASPECT_KEEP set the destination rectangle of the final
\* blit lies inside the destination, spans one of its dimensions, is centred
\* in the other and has the ratio of the source up to rounding; without the
\* flag it is the whole destination
C29_BlitRectangleInsideDestination ==
    lastCall.fn = "R3D_End" =>
        LET dst == BlitDestination(customTarget)
        IN  IF "R3D_FLAG_ASPECT_KEEP" \in flags
            THEN /\ InsideDestination(blitLog, dst)
                 /\ SpansAndCentred(blitLog, dst)
                 /\ KeepsRatio(blitLog, resolution)
            ELSE blitLog = [x |-> 0, y |-> 0, w |-> dst.width, h |-> dst.height]

(***************************************************************************)
(* SpecMip: the bloom mip chain loaded at the resolutions of the bounds.   *)
(***************************************************************************)
MipSides == {1, 8, 15, 16, 17, 32, 33, 64}

InitMip == \E w, h \in MipSides : R3D_InitAt(w, h, {})

NextMip ==
    \/ Running /\ R3D_Begin(SubmitCamera)
    \/ \E mode \in BloomModes : Running /\ Configuring /\ R3D_SetBloomMode(mode)
    \/ \E w, h \in MipSides \cup {0} : Running /\ Configuring /\ R3D_UpdateResolution(w, h)
    \/ Running /\ R3D_End

SpecMip == InitMip /\ [][NextMip]_vars

\* the smaller side of a level or of a resolution
SmallerSide(w, h) == IF w < h THEN w ELSE h

\* C30: a loaded bloom mip chain has mipCount levels, at least one, level 0
\* attached; level 0 has half the resolution and every other level half the
\* size of the level before it; the smaller side of every level is at least
\* 8 px, the next level would be under 8 px, and the count is at most
\* floor(log2(min(width, height)))
C30_MipChainLevels ==
    mipChainBloom.id # 0 =>
        LET chain == mipChainBloom.mipChain[1]
            n == mipChainBloom.mipCount
        IN  /\ mipChainBloom.mipChain # NULL
            /\ n = Len(chain)
            /\ n >= 1
            /\ mipChainBloom.attached = "mipChain[0]"
            /\ chain[1] = [w |-> resolution.width \div 2, h |-> resolution.height \div 2]
            /\ \A i \in 2..n : chain[i] = [w |-> chain[i - 1].w \div 2, h |-> chain[i - 1].h \div 2]
            /\ \A i \in 1..n : SmallerSide(chain[i].w, chain[i].h) >= minSize
            /\ SmallerSide(chain[n].w, chain[n].h) \div 2 < minSize
            /\ n <= FloorLog2(SmallerSide(resolution.width, resolution.height))

====
